---- MODULE Spec2Model ----
(***************************************************************************)
(* Verification model of the WebPipe language server core:                 *)
(*   - the recursive-descent parser (parser.ts: class Parser), and         *)
(*   - the version-keyed DocumentCache (document-cache.ts).                *)
(*                                                                         *)
(* Texts are sequences of one-character strings.  A parser state is a      *)
(* record holding the fields of class Parser (text, len, pos, diagnostics, *)
(* pipelineRanges, variableRanges) plus the outcome of the call that       *)
(* produced it: val (the returned value), exc (the exception in flight,    *)
(* "none" when the call returned) and null (tryParse returned null).       *)
(* Every operator is the identity on a state whose exc is not "none", so   *)
(* that sequential composition propagates a thrown exception exactly as    *)
(* the TypeScript code does.                                               *)
(***************************************************************************)
EXTENDS Integers, Sequences, FiniteSets, TLC

\* ------------------------------------------------------------------------
\* State
\* ------------------------------------------------------------------------

VARIABLES
  cache,     \* DocumentCache.cache: the Map, as its entries in insertion order
  clock,     \* the value Date.now() returns
  parsed,    \* history: the parser has returned a result for the observed pair
  lastCall,  \* the call on the cache that has just returned: its arguments and
             \* its outcome (NoCall at the start and once time has passed)
  parser,    \* the Parser object of the parseProgram call in progress
  program,   \* the five lists that call has collected so far
  pc,        \* where that call is: "idle", "loop", "done" or "threw"
  document,  \* the text of the document the language server has open
  answer     \* the last request served on the document, and what it returned

\* ------------------------------------------------------------------------
\* Character classes
\* ------------------------------------------------------------------------

NUL == "NUL"   \* the '\0' that peek()/cur() return past the end of the text

BT == "BT"     \* the backtick character (the lexer of TLA+ reserves it)

Lower == {"a","b","c","d","e","f","g","h","i","j","k","l","m",
          "n","o","p","q","r","s","t","u","v","w","x","y","z"}

Upper == {"A","B","C","D","E","F","G","H","I","J","K","L","M",
          "N","O","P","Q","R","S","T","U","V","W","X","Y","Z"}

Digits == {"0","1","2","3","4","5","6","7","8","9"}

IdentStartChars == Lower \cup Upper \cup {"_"}

IdentContChars == Lower \cup Upper \cup Digits \cup {"_", "-"}

SpaceChars == {" ", "\t", "\r", "\n"}

InlineSpaceChars == {" ", "\t", "\r"}

isIdentStart(ch) == ch \in IdentStartChars

isIdentCont(ch) == ch \in IdentContChars

\* ------------------------------------------------------------------------
\* Parser state and helpers
\* ------------------------------------------------------------------------

\* const x = ...: binds the value of a local constant in the expression F
Let(x, F(_)) == F(x)

NoVal == <<>>

\* new Parser(text)
NewParser(text) ==
  [text |-> text, len |-> Len(text), pos |-> 0, diagnostics |-> <<>>,
   pipelineRanges |-> <<>>, variableRanges |-> <<>>,
   val |-> NoVal, exc |-> "none", null |-> FALSE]

Threw(s) == s.exc # "none"

Return(s, v) == [s EXCEPT !.val = v, !.null = FALSE]

Throw(s, kind) == [s EXCEPT !.val = NoVal, !.exc = kind]

\* text.slice(from, to)
Slice(text, from, to) == SubSeq(text, from + 1, to)

eof(s) == s.pos >= s.len

cur(s) == IF s.pos < s.len THEN s.text[s.pos + 1] ELSE NUL


\* MapSet that adds an entry without looking for the key
MapSetAppending(m, key, value) == Append(m, [key |-> key, value |-> value])

\* Map.set: an existing key keeps its place in the insertion order
MapSet(m, key, value) ==
  IF \E i \in 1..Len(m) : m[i].key = key
  THEN [i \in 1..Len(m) |-> IF m[i].key = key THEN [key |-> key, value |-> value] ELSE m[i]]
  ELSE Append(m, [key |-> key, value |-> value])

report(s, message, start, end, severity) ==
  IF Threw(s) THEN s
  ELSE [s EXCEPT !.diagnostics =
          Append(@, [message |-> message, start |-> start, end |-> end, severity |-> severity])]

Max(a, b) == IF a >= b THEN a ELSE b

Min(a, b) == IF a <= b THEN a ELSE b

RECURSIVE LineStartFrom(_, _)
LineStartFrom(text, i) ==
  IF i > 0 /\ text[i] # "\n" THEN LineStartFrom(text, i - 1) ELSE i

findLineStart(s, pos) == LineStartFrom(s.text, Max(0, Min(pos, s.len)))

RECURSIVE LineEndFrom(_, _)
LineEndFrom(text, i) ==
  IF i < Len(text) /\ text[i + 1] # "\n" THEN LineEndFrom(text, i + 1) ELSE i

findLineEnd(s, pos) == LineEndFrom(s.text, Max(0, Min(pos, s.len)))

\* tryParse(fn): save is the state before fn ran, r the state fn left
\* tryParse with a catch clause for ParseFailure only
tryParseCatchingParseFailure(save, r) ==
  IF Threw(save) THEN save
  ELSE IF r.exc = "ParseFailure"
       THEN [r EXCEPT !.pos = save.pos, !.exc = "none", !.val = NoVal, !.null = TRUE]
       ELSE IF Threw(r) THEN r ELSE [r EXCEPT !.null = FALSE]

tryParse(save, r) ==
  IF Threw(save) THEN save
  ELSE IF Threw(r)
       THEN [r EXCEPT !.pos = save.pos, !.exc = "none", !.val = NoVal, !.null = TRUE]
       ELSE [r EXCEPT !.null = FALSE]

\* the index at which the loop  while (!eof && pred(text[pos])) pos++  stops,
\* for the predicate "the character is in chars" (in = TRUE) or its negation
RECURSIVE ScanWhile(_, _, _, _)
ScanWhile(text, i, chars, in) ==
  IF i < Len(text) /\ ((text[i + 1] \in chars) = in)
  THEN ScanWhile(text, i + 1, chars, in)
  ELSE i

consumeWhile(s, chars, in) ==
  IF Threw(s) THEN s
  ELSE Let(ScanWhile(s.text, s.pos, chars, in), LAMBDA stop :
           [s EXCEPT !.pos = stop, !.val = Slice(s.text, s.pos, stop), !.null = FALSE])

skipSpaces(s) == consumeWhile(s, SpaceChars, TRUE)

skipInlineSpaces(s) == consumeWhile(s, InlineSpaceChars, TRUE)

\* text.startsWith(str, pos)
startsWith(text, str, pos) ==
  /\ pos + Len(str) <= Len(text)
  /\ Slice(text, pos, pos + Len(str)) = str

\* match(str) as a test; the cursor move is in expect / the callers
matches(s, str) == startsWith(s.text, str, s.pos)

expect(s, str) ==
  IF Threw(s) THEN s
  ELSE IF matches(s, str)
       THEN [s EXCEPT !.pos = s.pos + Len(str)]
       ELSE Throw(s, "ParseFailure")

skipToEol(s) ==
  IF Threw(s) THEN s
  ELSE [s EXCEPT !.pos = ScanWhile(s.text, s.pos, {"\n"}, FALSE)]

\* this.parseX(): the call of a production method of the Parser, by its name
RECURSIVE production(_, _)

parseIdentifier(s) ==
  IF Threw(s) THEN s
  ELSE IF ~isIdentStart(cur(s)) THEN Throw(s, "ParseFailure")
  ELSE Let(ScanWhile(s.text, s.pos + 1, IdentContChars, TRUE), LAMBDA stop :
           [s EXCEPT !.pos = stop, !.val = Slice(s.text, s.pos, stop), !.null = FALSE])

DigitValue(ch) ==
  CASE ch = "0" -> 0 [] ch = "1" -> 1 [] ch = "2" -> 2 [] ch = "3" -> 3
    [] ch = "4" -> 4 [] ch = "5" -> 5 [] ch = "6" -> 6 [] ch = "7" -> 7
    [] ch = "8" -> 8 [] ch = "9" -> 9

\* parseInt(digits, 10) for a non-empty run of decimal digits
RECURSIVE parseInt(_)
parseInt(digits) ==
  IF Len(digits) = 0 THEN 0
  ELSE 10 * parseInt(SubSeq(digits, 1, Len(digits) - 1)) + DigitValue(digits[Len(digits)])

\* String(n).length for a non-negative integer
RECURSIVE StringLength(_)
StringLength(n) == IF n < 10 THEN 1 ELSE 1 + StringLength(n \div 10)

parseNumber(s) ==
  IF Threw(s) THEN s
  ELSE Let(consumeWhile(s, Digits, TRUE), LAMBDA r :
           IF Len(r.val) = 0 THEN Throw(r, "ParseFailure")
           ELSE Return(r, parseInt(Slice(s.text, s.pos, r.pos))))

\* shared body of parseQuotedString / parseBacktickString
parseDelimited(s, q) ==
  Let(expect(s, <<q>>), LAMBDA open :
  Let(consumeWhile(open, {q}, FALSE), LAMBDA body :
  Let(expect(body, <<q>>), LAMBDA close :
      IF Threw(close) THEN close ELSE Return(close, body.val))))

parseQuotedString(s) == parseDelimited(s, "\"")

parseBacktickString(s) == parseDelimited(s, BT)

\* ------------------------------------------------------------------------
\* Productions
\* ------------------------------------------------------------------------

methods == << <<"G","E","T">>, <<"P","O","S","T">>, <<"P","U","T">>, <<"P","A","T","C","H">>, <<"D","E","L","E","T","E">> >>

parseMethod(s) ==
  IF Threw(s) THEN s
  ELSE IF \E i \in 1..Len(methods) : matches(s, methods[i])
       THEN Let(CHOOSE i \in 1..Len(methods) :
                  /\ matches(s, methods[i])
                  /\ \A j \in 1..(i - 1) : ~matches(s, methods[j]), LAMBDA i :
                Return([s EXCEPT !.pos = s.pos + Len(methods[i])], methods[i]))
       ELSE Throw(s, "ParseFailure")

\* Step configuration: backticks, quotes, or bare identifier
parseStepConfig(s) ==
  Let(tryParse(s, production("parseBacktickString", s)), LAMBDA bt :
  Let(tryParse(bt, production("parseQuotedString", bt)), LAMBDA dq :
  Let(tryParse(dq, production("parseIdentifier", dq)), LAMBDA id :
      IF Threw(bt) \/ ~bt.null THEN bt
      ELSE IF Threw(dq) \/ ~dq.null THEN dq
      ELSE IF Threw(id) \/ ~id.null THEN id
      ELSE Throw(id, "ParseFailure"))))

\* ---- Config parsing ----

\* $VAR || "default"
parseEnvWithDefault(s) ==
  Let(production("parseIdentifier", expect(s, <<"$">>)), LAMBDA variable :
  Let(production("parseQuotedString", skipInlineSpaces(expect(skipInlineSpaces(variable), <<"|","|">>))), LAMBDA def :
      IF Threw(def) THEN def
      ELSE Return(def, [kind |-> "EnvVar", var |-> variable.val, default |-> def.val])))

\* $VAR
parseEnvNoDefault(s) ==
  Let(production("parseIdentifier", expect(s, <<"$">>)), LAMBDA variable :
      IF Threw(variable) THEN variable
      ELSE Return(variable, [kind |-> "EnvVar", var |-> variable.val]))

parseBool(s) ==
  IF Threw(s) THEN s
  ELSE IF matches(s, <<"t","r","u","e">>) THEN Return([s EXCEPT !.pos = s.pos + 4], TRUE)
  ELSE IF matches(s, <<"f","a","l","s","e">>) THEN Return([s EXCEPT !.pos = s.pos + 5], FALSE)
  ELSE Throw(s, "ParseFailure")

parseConfigValue(s) ==
  Let(tryParse(s, production("parseEnvWithDefault", s)), LAMBDA envWithDefault :
  Let(tryParse(envWithDefault, production("parseEnvNoDefault", envWithDefault)), LAMBDA envNoDefault :
  Let(tryParse(envNoDefault, production("parseQuotedString", envNoDefault)), LAMBDA str :
  Let(tryParse(str, production("parseBool", str)), LAMBDA bool :
  Let(tryParse(bool, production("parseNumber", bool)), LAMBDA num :
      IF Threw(envWithDefault) \/ ~envWithDefault.null THEN envWithDefault
      ELSE IF Threw(envNoDefault) \/ ~envNoDefault.null THEN envNoDefault
      ELSE IF Threw(str) THEN str
      ELSE IF ~str.null THEN Return(str, [kind |-> "String", value |-> str.val])
      ELSE IF Threw(bool) THEN bool
      ELSE IF ~bool.null THEN Return(bool, [kind |-> "Boolean", value |-> bool.val])
      ELSE IF Threw(num) THEN num
      ELSE IF ~num.null THEN Return(num, [kind |-> "Number", value |-> num.val])
      ELSE Throw(num, "ParseFailure"))))))

parseConfigProperty(s) ==
  Let(production("parseIdentifier", skipSpaces(s)), LAMBDA key :
  Let(production("parseConfigValue", skipInlineSpaces(expect(skipInlineSpaces(key), <<":">>))), LAMBDA value :
      IF Threw(value) THEN value
      ELSE Return(value, [key |-> key.val, value |-> value.val])))

\* the while (true) loop of parseConfig
RECURSIVE parseConfigProperties(_, _)
parseConfigProperties(s, properties) ==
  Let(tryParse(s, production("parseConfigProperty", s)), LAMBDA prop :
      IF Threw(prop) THEN prop
      ELSE IF prop.null THEN Return(prop, properties)
      ELSE parseConfigProperties(skipSpaces(prop), Append(properties, prop.val)))

parseConfig(s) ==
  Let(production("parseIdentifier", skipInlineSpaces(expect(s, <<"c","o","n","f","i","g">>))), LAMBDA name :
  Let(skipSpaces(expect(skipInlineSpaces(name), <<"{">>)), LAMBDA open :
  Let(IF Threw(open) THEN open ELSE parseConfigProperties(open, <<>>), LAMBDA properties :
  Let(skipSpaces(expect(skipSpaces(properties), <<"}">>)), LAMBDA close :
      IF Threw(close) THEN close
      ELSE Return(close, [name |-> name.val, properties |-> properties.val])))))

\* ---- Pipeline parsing ----

parseRegularStep(s) ==
  Let(production("parseIdentifier", skipInlineSpaces(expect(skipSpaces(s), <<"|",">">>))), LAMBDA name :
  Let(production("parseStepConfig", skipInlineSpaces(expect(name, <<":">>))), LAMBDA config :
  Let(skipSpaces(config), LAMBDA done :
      IF Threw(done) THEN done
      ELSE Return(done, [kind |-> "Regular", name |-> name.val, config |-> config.val]))))

branchTypeOf(branchIdent) ==
  IF branchIdent = <<"o","k">> THEN [kind |-> "Ok"]
  ELSE IF branchIdent = <<"d","e","f","a","u","l","t">> THEN [kind |-> "Default"]
  ELSE [kind |-> "Custom", name |-> branchIdent]

\* reportStatusCode with the two ends of the range exchanged
reportStatusCodeEndFirst(s) ==
  IF Threw(s) THEN s
  ELSE IF s.val < 100 \/ s.val > 599
       THEN report(s, <<"Invalid HTTP status code: ", s.val>>,
                   s.pos, s.pos - StringLength(s.val), "error")
       ELSE s

\* the range check of parseResultBranch and the diagnostic it reports
reportStatusCode(s) ==
  IF Threw(s) THEN s
  ELSE IF s.val < 100 \/ s.val > 599
       THEN report(s, <<"Invalid HTTP status code: ", s.val>>,
                   s.pos - StringLength(s.val), s.pos, "error")
       ELSE s

RECURSIVE parsePipelineSteps(_, _)
RECURSIVE parsePipelineStep(_)
RECURSIVE parseResultStep(_)
RECURSIVE parseResultBranches(_, _)
RECURSIVE parseResultBranch(_)

parsePipeline(s) == parsePipelineSteps(s, <<>>)

\* the while (true) loop of parsePipeline
parsePipelineSteps(s, steps) ==
  IF Threw(s) THEN s
  ELSE IF ~matches(skipSpaces(s), <<"|",">">>)
       THEN Return(s, [steps |-> steps])
       ELSE Let(production("parsePipelineStep", skipSpaces(s)), LAMBDA step :
                IF Threw(step) THEN step
                ELSE parsePipelineSteps(step, Append(steps, step.val)))

parsePipelineStep(s) ==
  Let(tryParse(s, production("parseResultStep", s)), LAMBDA result :
      IF Threw(result) \/ ~result.null THEN result
      ELSE production("parseRegularStep", result))

parseResultStep(s) ==
  Let(skipSpaces(expect(skipInlineSpaces(expect(skipSpaces(s), <<"|",">">>)), <<"r","e","s","u","l","t">>)), LAMBDA head :
  Let(parseResultBranches(head, <<>>), LAMBDA branches :
      IF Threw(branches) THEN branches
      ELSE Return(branches, [kind |-> "Result", branches |-> branches.val])))

\* the while (true) loop of parseResultStep
parseResultBranches(s, branches) ==
  Let(tryParse(s, production("parseResultBranch", s)), LAMBDA br :
      IF Threw(br) THEN br
      ELSE IF br.null THEN Return(br, branches)
      ELSE parseResultBranches(br, Append(branches, br.val)))

parseResultBranch(s) ==
  Let(production("parseIdentifier", skipSpaces(s)), LAMBDA branchIdent :
  Let(reportStatusCode(production("parseNumber", expect(branchIdent, <<"(">>))), LAMBDA statusCode :
  Let(production("parsePipeline", skipSpaces(expect(expect(statusCode, <<")">>), <<":">>))), LAMBDA pipeline :
      IF Threw(pipeline) THEN pipeline
      ELSE Return(pipeline, [branchType |-> branchTypeOf(branchIdent.val),
                             statusCode |-> statusCode.val,
                             pipeline   |-> pipeline.val]))))

parseNamedPipeline(s) ==
  Let(s.pos, LAMBDA start :
  Let(production("parseIdentifier", skipInlineSpaces(expect(s, <<"p","i","p","e","l","i","n","e">>))), LAMBDA name :
  Let(production("parsePipeline", skipInlineSpaces(expect(skipInlineSpaces(name), <<"=">>))), LAMBDA pipeline :
  Let(pipeline.pos, LAMBDA end :
  Let([pipeline EXCEPT !.pipelineRanges =
         MapSet(@, name.val, [start |-> start, end |-> end])], LAMBDA recorded :
      IF Threw(pipeline) THEN pipeline
      ELSE Return(skipSpaces(recorded), [name |-> name.val, pipeline |-> pipeline.val]))))))

\* Named pipeline reference: |> pipeline: name
parseNamedRef(s) ==
  Let(production("parseIdentifier", skipInlineSpaces(expect(skipInlineSpaces(
        expect(skipSpaces(s), <<"|",">">>)), <<"p","i","p","e","l","i","n","e",":">>))), LAMBDA name :
      IF Threw(name) THEN name
      ELSE Return(name, [kind |-> "Named", name |-> name.val]))

parsePipelineRef(s) ==
  Let(tryParse(s, production("parsePipeline", s)), LAMBDA inline :
  Let(tryParse(inline, production("parseNamedRef", inline)), LAMBDA named :
      IF Threw(inline) THEN inline
      ELSE IF ~inline.null /\ Len(inline.val.steps) > 0
           THEN Return(inline, [kind |-> "Inline", pipeline |-> inline.val])
      ELSE IF Threw(named) \/ ~named.null THEN named
      ELSE Throw(named, "Error")))

\* ---- Variable parsing ----

parseVariable(s) ==
  Let(s.pos, LAMBDA start :
  Let(production("parseIdentifier", s), LAMBDA varType :
  Let(production("parseIdentifier", skipInlineSpaces(varType)), LAMBDA name :
  Let(production("parseBacktickString", skipInlineSpaces(expect(skipInlineSpaces(name), <<"=">>))), LAMBDA value :
  Let(value.pos, LAMBDA end :
  Let([value EXCEPT !.variableRanges =
         MapSet(@, varType.val \o <<":",":">> \o name.val, [start |-> start, end |-> end])], LAMBDA recorded :
      IF Threw(value) THEN value
      ELSE Return(skipSpaces(recorded),
                  [varType |-> varType.val, name |-> name.val, value |-> value.val])))))))

\* ---- Route parsing ----

parseRoute(s) ==
  Let(production("parseMethod", s), LAMBDA method :
  Let(consumeWhile(skipInlineSpaces(method), {" ", "\n"}, FALSE), LAMBDA path :
  Let(production("parsePipelineRef", skipSpaces(path)), LAMBDA pipeline :
  Let(skipSpaces(pipeline), LAMBDA done :
      IF Threw(done) THEN done
      ELSE Return(done, [method |-> method.val, path |-> path.val, pipeline |-> pipeline.val])))))

\* ---- Test parsing ----

parseCallingRoute(s) ==
  Let(production("parseMethod", skipInlineSpaces(expect(s, <<"c","a","l","l","i","n","g">>))), LAMBDA method :
  Let(consumeWhile(skipInlineSpaces(method), {"\n"}, FALSE), LAMBDA path :
      IF Threw(path) THEN path
      ELSE Return(path, [kind |-> "CallingRoute", method |-> method.val, path |-> path.val])))

parseExecutingPipeline(s) ==
  Let(production("parseIdentifier", skipInlineSpaces(expect(skipInlineSpaces(
        expect(s, <<"e","x","e","c","u","t","i","n","g">>)), <<"p","i","p","e","l","i","n","e">>))), LAMBDA name :
      IF Threw(name) THEN name
      ELSE Return(name, [kind |-> "ExecutingPipeline", name |-> name.val]))

parseExecutingVariable(s) ==
  Let(production("parseIdentifier", skipInlineSpaces(expect(skipInlineSpaces(
        expect(s, <<"e","x","e","c","u","t","i","n","g">>)), <<"v","a","r","i","a","b","l","e">>))), LAMBDA varType :
  Let(production("parseIdentifier", skipInlineSpaces(varType)), LAMBDA name :
      IF Threw(name) THEN name
      ELSE Return(name, [kind |-> "ExecutingVariable", varType |-> varType.val, name |-> name.val])))

parseWhen(s) ==
  Let(tryParse(s, production("parseCallingRoute", s)), LAMBDA calling :
  Let(tryParse(calling, production("parseExecutingPipeline", calling)), LAMBDA executingPipeline :
  Let(tryParse(executingPipeline, production("parseExecutingVariable", executingPipeline)), LAMBDA executingVariable :
      IF Threw(calling) \/ ~calling.null THEN calling
      ELSE IF Threw(executingPipeline) \/ ~executingPipeline.null THEN executingPipeline
      ELSE IF Threw(executingVariable) \/ ~executingVariable.null THEN executingVariable
      ELSE Throw(executingVariable, "ParseFailure"))))

\* the conditionType closure of parseCondition
parseConditionType(s) ==
  IF Threw(s) THEN s
  ELSE IF matches(s, <<"t","h","e","n">>) THEN Return([s EXCEPT !.pos = s.pos + 4], "Then")
  ELSE IF matches(s, <<"a","n","d">>) THEN Return([s EXCEPT !.pos = s.pos + 3], "And")
  ELSE Throw(s, "Error")

\* the value closure of parseCondition
parseConditionValue(s) ==
  Let(tryParse(s, production("parseBacktickString", s)), LAMBDA v1 :
  Let(tryParse(v1, production("parseQuotedString", v1)), LAMBDA v2 :
      IF Threw(v1) \/ ~v1.null THEN v1
      ELSE IF Threw(v2) \/ ~v2.null THEN v2
      ELSE consumeWhile(v2, {"\n"}, FALSE)))

parseCondition(s) ==
  Let(production("parseConditionType", skipSpaces(s)), LAMBDA ct :
  Let(consumeWhile(skipInlineSpaces(ct), {" ", "\n", BT}, FALSE), LAMBDA field :
  Let(skipInlineSpaces(field), LAMBDA beforeJq :
  Let(tryParse(beforeJq, production("parseBacktickString", beforeJq)), LAMBDA jqExpr :
  Let(consumeWhile(skipInlineSpaces(jqExpr), {" ", "\n"}, FALSE), LAMBDA comparison :
  Let(production("parseConditionValue", skipInlineSpaces(comparison)), LAMBDA value :
      IF Threw(value) THEN value
      ELSE Return(value, [conditionType |-> ct.val, field |-> field.val,
                          jqExpr |-> IF jqExpr.null THEN <<>> ELSE <<jqExpr.val>>,
                          comparison |-> comparison.val, value |-> value.val])))))))

parseMockHead(s, prefixWord) ==
  Let(consumeWhile(skipInlineSpaces(expect(skipInlineSpaces(
        expect(skipSpaces(s), prefixWord)), <<"m","o","c","k">>)), {" ", "\n"}, FALSE), LAMBDA target :
  Let(production("parseBacktickString", skipInlineSpaces(expect(skipInlineSpaces(target),
        <<"r","e","t","u","r","n","i","n","g">>))), LAMBDA returnValue :
  Let(skipSpaces(returnValue), LAMBDA done :
      IF Threw(done) THEN done
      ELSE Return(done, [target |-> target.val, returnValue |-> returnValue.val]))))

parseMock(s) == parseMockHead(s, <<"w","i","t","h">>)

parseAndMock(s) == parseMockHead(s, <<"a","n","d">>)

\* the first while (true) loop of parseIt
RECURSIVE parseItMocks(_, _)
parseItMocks(s, mocks) ==
  Let(tryParse(s, production("parseMock", s)), LAMBDA m :
      IF Threw(m) THEN m
      ELSE IF m.null THEN Return(m, mocks)
      ELSE parseItMocks(m, Append(mocks, m.val)))

\* the loop over parseAndMock in parseIt, and the loop over parseMock in parseDescribe
RECURSIVE parseMocksSkipping(_, _, _)
parseMocksSkipping(s, prefixWord, mocks) ==
  Let(tryParse(s, parseMockHead(s, prefixWord)), LAMBDA m :
      IF Threw(m) THEN m
      ELSE IF m.null THEN Return(m, mocks)
      ELSE parseMocksSkipping(skipSpaces(m), prefixWord, Append(mocks, m.val)))

\* the while (true) loop over parseCondition in parseIt
RECURSIVE parseConditions(_, _)
parseConditions(s, conditions) ==
  Let(tryParse(s, production("parseCondition", s)), LAMBDA c :
      IF Threw(c) THEN c
      ELSE IF c.null THEN Return(c, conditions)
      ELSE parseConditions(c, Append(conditions, c.val)))

\* the with input closure of parseIt
parseInput(s) ==
  Let(production("parseBacktickString", skipInlineSpaces(expect(skipInlineSpaces(
        expect(s, <<"w","i","t","h">>)), <<"i","n","p","u","t">>))), LAMBDA v :
  Let(skipSpaces(v), LAMBDA done :
      IF Threw(done) THEN done ELSE Return(done, v.val)))

parseIt(s) ==
  Let(expect(skipInlineSpaces(expect(skipSpaces(s), <<"i","t">>)), <<"\"">>), LAMBDA open :
  Let(consumeWhile(open, {"\""}, FALSE), LAMBDA name :
  Let(parseItMocks(skipSpaces(expect(name, <<"\"">>)), <<>>), LAMBDA mocks :
  Let(production("parseWhen", skipInlineSpaces(expect(mocks, <<"w","h","e","n">>))), LAMBDA when :
  Let(skipSpaces(when), LAMBDA afterWhen :
  Let(tryParse(afterWhen, production("parseInput", afterWhen)), LAMBDA input :
  Let(parseMocksSkipping(input, <<"a","n","d">>, <<>>), LAMBDA extraMocks :
  Let(parseConditions(extraMocks, <<>>), LAMBDA conditions :
      IF Threw(conditions) THEN conditions
      ELSE Return(conditions,
                  [name |-> name.val, mocks |-> mocks.val \o extraMocks.val, when |-> when.val,
                   input |-> IF input.null THEN <<>> ELSE <<input.val>>,
                   conditions |-> conditions.val])))))))))

\* the while (true) loop over parseIt in parseDescribe
RECURSIVE parseTests(_, _)
parseTests(s, tests) ==
  Let(tryParse(s, production("parseIt", s)), LAMBDA it :
      IF Threw(it) THEN it
      ELSE IF it.null THEN Return(it, tests)
      ELSE parseTests(it, Append(tests, it.val)))

parseDescribe(s) ==
  Let(expect(skipInlineSpaces(expect(skipSpaces(s), <<"d","e","s","c","r","i","b","e">>)), <<"\"">>), LAMBDA open :
  Let(consumeWhile(open, {"\""}, FALSE), LAMBDA name :
  Let(parseMocksSkipping(skipSpaces(expect(name, <<"\"">>)), <<"w","i","t","h">>, <<>>), LAMBDA mocks :
  Let(parseTests(mocks, <<>>), LAMBDA tests :
      IF Threw(tests) THEN tests
      ELSE Return(tests, [name |-> name.val, mocks |-> mocks.val, tests |-> tests.val])))))

\* ---- Entry point ----

EmptyProgram ==
  [configs |-> <<>>, pipelines |-> <<>>, variables |-> <<>>, routes |-> <<>>, describes |-> <<>>]

\* the fallback without skipToEol and consumeWhile
skipUnrecognizedLineStaying(s, start) ==
  IF Threw(s) \/ s.pos # start THEN s
  ELSE report(s, <<"Unrecognized or unsupported syntax">>,
              findLineStart(s, s.pos), findLineEnd(s, s.pos), "warning")

\* Fallback: report and skip to end of line to avoid infinite loop
skipUnrecognizedLine(s, start) ==
  IF Threw(s) \/ s.pos # start THEN s
  ELSE consumeWhile(
         skipToEol(report(s, <<"Unrecognized or unsupported syntax">>,
                          findLineStart(s, s.pos), findLineEnd(s, s.pos), "warning")),
         {"\n"}, TRUE)

\* One pass through the body of the while (!eof) loop of parseProgram, entered
\* with parser state s0.  branch names the way the pass ended: "break", the
\* production that matched (its value is the val of s), or "fallback".
parseProgramIteration(s0) ==
  Let(skipSpaces(s0), LAMBDA s :
  Let(s.pos, LAMBDA start :
  Let(tryParse(s, production("parseConfig", s)), LAMBDA cfg :
  Let(tryParse(cfg, production("parseNamedPipeline", cfg)), LAMBDA namedPipe :
  Let(tryParse(namedPipe, production("parseVariable", namedPipe)), LAMBDA variable :
  Let(tryParse(variable, production("parseRoute", variable)), LAMBDA route :
  Let(tryParse(route, production("parseDescribe", route)), LAMBDA describe :
      IF eof(s) THEN [s |-> s, branch |-> "break"]
      ELSE IF Threw(cfg) \/ ~cfg.null THEN [s |-> cfg, branch |-> "config"]
      ELSE IF Threw(namedPipe) \/ ~namedPipe.null THEN [s |-> namedPipe, branch |-> "pipeline"]
      ELSE IF Threw(variable) \/ ~variable.null THEN [s |-> variable, branch |-> "variable"]
      ELSE IF Threw(route) \/ ~route.null THEN [s |-> route, branch |-> "route"]
      ELSE IF Threw(describe) \/ ~describe.null THEN [s |-> describe, branch |-> "describe"]
      ELSE [s |-> skipUnrecognizedLine(describe, start), branch |-> "fallback"])))))))

production(name, s) ==
  CASE name = "parseIdentifier" -> parseIdentifier(s)
  [] name = "parseNumber" -> parseNumber(s)
  [] name = "parseQuotedString" -> parseQuotedString(s)
  [] name = "parseBacktickString" -> parseBacktickString(s)
  [] name = "parseMethod" -> parseMethod(s)
  [] name = "parseStepConfig" -> parseStepConfig(s)
  [] name = "parseEnvWithDefault" -> parseEnvWithDefault(s)
  [] name = "parseEnvNoDefault" -> parseEnvNoDefault(s)
  [] name = "parseBool" -> parseBool(s)
  [] name = "parseConfigValue" -> parseConfigValue(s)
  [] name = "parseConfigProperty" -> parseConfigProperty(s)
  [] name = "parseConfig" -> parseConfig(s)
  [] name = "parseRegularStep" -> parseRegularStep(s)
  [] name = "parsePipeline" -> parsePipeline(s)
  [] name = "parsePipelineStep" -> parsePipelineStep(s)
  [] name = "parseResultStep" -> parseResultStep(s)
  [] name = "parseResultBranch" -> parseResultBranch(s)
  [] name = "parseNamedPipeline" -> parseNamedPipeline(s)
  [] name = "parseNamedRef" -> parseNamedRef(s)
  [] name = "parsePipelineRef" -> parsePipelineRef(s)
  [] name = "parseVariable" -> parseVariable(s)
  [] name = "parseRoute" -> parseRoute(s)
  [] name = "parseCallingRoute" -> parseCallingRoute(s)
  [] name = "parseExecutingPipeline" -> parseExecutingPipeline(s)
  [] name = "parseExecutingVariable" -> parseExecutingVariable(s)
  [] name = "parseWhen" -> parseWhen(s)
  [] name = "parseConditionType" -> parseConditionType(s)
  [] name = "parseConditionValue" -> parseConditionValue(s)
  [] name = "parseCondition" -> parseCondition(s)
  [] name = "parseMock" -> parseMock(s)
  [] name = "parseAndMock" -> parseAndMock(s)
  [] name = "parseInput" -> parseInput(s)
  [] name = "parseIt" -> parseIt(s)
  [] name = "parseDescribe" -> parseDescribe(s)
  [] name = "parseProgramIteration" -> parseProgramIteration(s)

\* configs.push(cfg), pipelines.push(namedPipe), variables.push(variable),
\* routes.push(route), describes.push(describe): the lists after a pass
pushed(prog, it) ==
  IF Threw(it.s) THEN prog
  ELSE CASE it.branch = "config"   -> [prog EXCEPT !.configs = Append(@, it.s.val)]
         [] it.branch = "pipeline" -> [prog EXCEPT !.pipelines = Append(@, it.s.val)]
         [] it.branch = "variable" -> [prog EXCEPT !.variables = Append(@, it.s.val)]
         [] it.branch = "route"    -> [prog EXCEPT !.routes = Append(@, it.s.val)]
         [] it.branch = "describe" -> [prog EXCEPT !.describes = Append(@, it.s.val)]
         [] OTHER                  -> prog

\* (text.match(/BT/g) || []).length
backtickCount(text) == Cardinality({i \in 1..Len(text) : text[i] = BT})

\* text.indexOf(BT) in the place of text.lastIndexOf(BT)
indexOfBacktick(text) ==
  IF \E i \in 1..Len(text) : text[i] = BT
  THEN (CHOOSE i \in 1..Len(text) :
          text[i] = BT /\ \A j \in 1..(i - 1) : text[j] # BT) - 1
  ELSE -1

\* text.lastIndexOf(BT)
lastIndexOfBacktick(text) ==
  IF \E i \in 1..Len(text) : text[i] = BT
  THEN (CHOOSE i \in 1..Len(text) :
          text[i] = BT /\ \A j \in (i + 1)..Len(text) : text[j] # BT) - 1
  ELSE -1

\* Simple unmatched backtick detection, and the return of parseProgram
parseProgramFinish(s, prog) ==
  IF Threw(s) THEN s
  ELSE IF backtickCount(s.text) % 2 = 1
       THEN Let(Max(0, lastIndexOfBacktick(s.text)), LAMBDA start :
                Return(report(s, <<"Unclosed backtick-delimited string">>,
                              start, start + 1, "warning"), prog))
       ELSE Return(s, prog)

\* the while (!eof) loop of parseProgram
RECURSIVE parseProgramLoop(_, _)
parseProgramLoop(s, prog) ==
  IF Threw(s) THEN s
  ELSE IF eof(s) THEN parseProgramFinish(s, prog)
  ELSE Let(production("parseProgramIteration", s), LAMBDA it :
           IF it.branch = "break" THEN parseProgramFinish(it.s, prog)
           ELSE parseProgramLoop(it.s, pushed(prog, it)))

\* Parser.parseProgram on a parser state
parserParseProgram(s) == parseProgramLoop(skipSpaces(s), EmptyProgram)

\* ---- Public API ----
\* A result carries exc: "none" when the call returned, and otherwise the
\* exception that reached the caller.

parseProgram(text) ==
  Let(parserParseProgram(NewParser(text)), LAMBDA p :
      [exc |-> p.exc, program |-> p.val])

parseProgramWithDiagnostics(text) ==
  Let(parserParseProgram(NewParser(text)), LAMBDA p :
      [exc |-> p.exc, program |-> p.val, diagnostics |-> p.diagnostics])

getPipelineRanges(text) ==
  Let(parserParseProgram(NewParser(text)), LAMBDA p :
      [exc |-> p.exc, ranges |-> p.pipelineRanges])

getVariableRanges(text) ==
  Let(parserParseProgram(NewParser(text)), LAMBDA p :
      [exc |-> p.exc, ranges |-> p.variableRanges])

\* ========================================================================
\* DocumentCache
\* ========================================================================

\* ---- Bounds of the model ----

NumUris == 3        \* documents the editor may open

ClockTick == 200000 \* milliseconds between two distinguishable readings of Date.now()

MaxTicks == 2       \* the clock stops advancing after MaxTicks ticks

\* ---- Constants of DocumentCache ----

\* private maxCacheSize = 100, scaled down to 2 entries so that an insertion
\* overflows the cache with NumUris documents
maxCacheSize == 2

maxCacheAge == 300000

Uris == 1..NumUris

ClockValues == {k * ClockTick : k \in 0..MaxTicks}

\* doc.getText(): the text of a document is determined by its version, and a
\* document has one version for each of these texts
DocTexts == << <<"x">>, <<"G","E","T"," ","/"," ","|",">","a",":","b">> >>

Versions == 1..Len(DocTexts)

getText(version) == DocTexts[version]

\* ---- Map helpers (Map keeps insertion order) ----

MapHas(m, key) == \E i \in 1..Len(m) : m[i].key = key

MapGet(m, key) == m[CHOOSE i \in 1..Len(m) : m[i].key = key].value


\* MapDelete that drops every entry
MapDeleteEverything(m, key) == <<>>

MapDelete(m, key) == SelectSeq(m, LAMBDA e : e.key # key)

RECURSIVE MapDeleteAll(_, _)
MapDeleteAll(m, keys) ==
  IF Len(keys) = 0 THEN m ELSE MapDeleteAll(MapDelete(m, Head(keys)), Tail(keys))

\* Array.prototype.sort((a, b) => a[1].timestamp - b[1].timestamp): stable
RECURSIVE InsertByTimestamp(_, _)
InsertByTimestamp(sorted, e) ==
  IF Len(sorted) = 0 THEN <<e>>
  ELSE IF sorted[Len(sorted)].value.timestamp <= e.value.timestamp THEN Append(sorted, e)
  ELSE Append(InsertByTimestamp(SubSeq(sorted, 1, Len(sorted) - 1), e), sorted[Len(sorted)])

\* the entries left in the order of their insertion
SortByInsertion(entries) == entries

RECURSIVE SortByTimestamp(_)
SortByTimestamp(entries) ==
  IF Len(entries) = 0 THEN <<>>
  ELSE InsertByTimestamp(SortByTimestamp(SubSeq(entries, 1, Len(entries) - 1)),
                         entries[Len(entries)])

\* ---- DocumentCache.cleanup, with the reading of Date.now() at its line 96 ----


\* cleanup without its second pass
cleanupByAgeOnly(c, dateNow) ==
  IF Len(c) <= maxCacheSize THEN c
  ELSE SelectSeq(c, LAMBDA e : ~(dateNow - e.value.timestamp > maxCacheAge))

cleanup(c, dateNow) ==
  IF Len(c) <= maxCacheSize THEN c
  ELSE Let(c, LAMBDA entries :
       Let(SelectSeq(c, LAMBDA e : ~(dateNow - e.value.timestamp > maxCacheAge)), LAMBDA aged :
       Let(SortByTimestamp(entries), LAMBDA sorted :
       Let(Len(aged) - maxCacheSize, LAMBDA toRemove :
           IF Len(aged) > maxCacheSize
           THEN MapDeleteAll(aged, [i \in 1..toRemove |-> sorted[i].key])
           ELSE aged))))

vars == <<cache, clock, parsed, lastCall, parser, program, pc, document, answer>>

cacheVars == <<cache, clock, parsed, lastCall>>

\* history: the (uri, version) pair whose parses are observed
observed == <<1, 1>>

parserVars == <<parser, program, pc>>

symbolVars == <<document, answer>>

\* no request has been served
NoAnswer == [op |-> "none"]

\* lastCall.cached is what the call found under the uri ("absent", "stale" for
\* another version, "current"), lastCall.parses counts the invocations of the
\* parser during the call, lastCall.again says that the call parsed the
\* observed pair once more, and lastCall.removed counts the entries the call
\* removed from the Map.
NoCall ==
  [op |-> "none", uri |-> 0, version |-> 0, cached |-> "absent", parses |-> 0,
   exc |-> "none", result |-> NoVal, again |-> FALSE, removed |-> 0]

\* parseProgramWithDiagnostics on the texts of DocTexts, tabulated
DocParses == [i \in 1..Len(DocTexts) |-> parseProgramWithDiagnostics(DocTexts[i])] \o <<>>

parseDocument(version) == DocParses[version]

\* ---- DocumentCache.get ----
\* Date.now() returns clock at line 32 or line 46, and t2 when cleanup reads it
\* at line 96.  fails says that the rebuild at lines 37-38 (getText and the
\* parser of the webpipe-js package) raised an exception.

\* isHit with the version compared off by one
isHitOffByOne(c, uri, version) == MapHas(c, uri) /\ MapGet(c, uri).version = version + 1

isHit(c, uri, version) == MapHas(c, uri) /\ MapGet(c, uri).version = version

getHit(uri, version) ==
  Let(MapGet(cache, uri), LAMBDA cached :
      /\ cache' = MapSet(cache, uri, [cached EXCEPT !.timestamp = clock])
      /\ clock' = clock
      /\ parsed' = parsed
      /\ lastCall' = [NoCall EXCEPT !.op = "get", !.uri = uri, !.version = version,
                        !.cached = "current",
                        !.result = [program |-> cached.program,
                                    diagnostics |-> cached.diagnostics]])

\* getMiss that drops the stale entry before it rebuilds
getMissDroppingFirst(uri, version, t2, fails) ==
  Let(getText(version), LAMBDA text :
  Let(IF fails THEN [exc |-> "Error"] ELSE parseDocument(version), LAMBDA r :
  Let(MapSet(cache, uri,
             [version |-> version, text |-> text, program |-> r.program,
              diagnostics |-> r.diagnostics, timestamp |-> clock]), LAMBDA stored :
  Let([NoCall EXCEPT !.op = "get", !.uri = uri, !.version = version,
         !.cached = IF MapHas(cache, uri) THEN "stale" ELSE "absent",
         !.parses = 1, !.again = (parsed /\ observed = <<uri, version>>)], LAMBDA call :
      IF r.exc # "none"
      THEN /\ t2 = clock
           /\ cache' = MapDelete(cache, uri)
           /\ clock' = clock
           /\ parsed' = parsed
           /\ lastCall' = [call EXCEPT !.exc = r.exc]
      ELSE /\ Len(stored) <= maxCacheSize => t2 = clock
           /\ cache' = cleanup(stored, t2)
           /\ clock' = t2
           /\ parsed' = (parsed \/ observed = <<uri, version>>)
           /\ lastCall' = [call EXCEPT !.removed = Len(stored) - Len(cache'),
                             !.result = [program |-> r.program,
                                         diagnostics |-> r.diagnostics]]))))

\* cleanup reads Date.now() only past its early return of line 92
getMiss(uri, version, t2, fails) ==
  Let(getText(version), LAMBDA text :
  Let(IF fails THEN [exc |-> "Error"] ELSE parseDocument(version), LAMBDA r :
  Let(MapSet(cache, uri,
             [version |-> version, text |-> text, program |-> r.program,
              diagnostics |-> r.diagnostics, timestamp |-> clock]), LAMBDA stored :
  Let([NoCall EXCEPT !.op = "get", !.uri = uri, !.version = version,
         !.cached = IF MapHas(cache, uri) THEN "stale" ELSE "absent",
         !.parses = 1, !.again = (parsed /\ observed = <<uri, version>>)], LAMBDA call :
      IF r.exc # "none"
      THEN /\ t2 = clock
           /\ cache' = cache
           /\ clock' = clock
           /\ parsed' = parsed
           /\ lastCall' = [call EXCEPT !.exc = r.exc]
      ELSE /\ Len(stored) <= maxCacheSize => t2 = clock
           /\ cache' = cleanup(stored, t2)
           /\ clock' = t2
           /\ parsed' = (parsed \/ observed = <<uri, version>>)
           /\ lastCall' = [call EXCEPT !.removed = Len(stored) - Len(cache'),
                             !.result = [program |-> r.program,
                                         diagnostics |-> r.diagnostics]]))))

\* get that rebuilds without looking for a cached entry
getRebuildingAlways(uri, version, t2, fails) ==
  /\ clock <= t2
  /\ getMiss(uri, version, t2, fails)

get(uri, version, t2, fails) ==
  /\ clock <= t2
  /\ IF isHit(cache, uri, version)
     THEN t2 = clock /\ ~fails /\ getHit(uri, version)
     ELSE getMiss(uri, version, t2, fails)

Get(uri, version, t2, fails) ==
  /\ get(uri, version, t2, fails)
  /\ UNCHANGED <<parserVars, symbolVars>>

GetText(uri, version) ==
  /\ lastCall' = [NoCall EXCEPT !.op = "getText", !.uri = uri, !.version = version,
                    !.cached = IF isHit(cache, uri, version) THEN "current"
                               ELSE IF MapHas(cache, uri) THEN "stale" ELSE "absent",
                    !.result = IF isHit(cache, uri, version)
                               THEN MapGet(cache, uri).text ELSE getText(version)]
  /\ UNCHANGED <<cache, clock, parsed, parserVars, symbolVars>>

Invalidate(uri) ==
  /\ cache' = MapDelete(cache, uri)
  /\ lastCall' = [NoCall EXCEPT !.op = "invalidate", !.uri = uri,
                    !.removed = Len(cache) - Len(cache')]
  /\ UNCHANGED <<clock, parsed, parserVars, symbolVars>>

Clear ==
  /\ cache' = <<>>
  /\ lastCall' = [NoCall EXCEPT !.op = "clear", !.removed = Len(cache)]
  /\ UNCHANGED <<clock, parsed, parserVars, symbolVars>>

\* time passes between two calls
Tick ==
  /\ clock + ClockTick \in ClockValues
  /\ clock' = clock + ClockTick
  /\ lastCall' = NoCall
  /\ UNCHANGED <<cache, parsed, parserVars, symbolVars>>

Init ==
  /\ cache = <<>>
  /\ clock = 0
  /\ parsed = FALSE
  /\ lastCall = NoCall
  /\ parser = NewParser(<<>>)
  /\ program = EmptyProgram
  /\ pc = "idle"
  /\ document = <<>>
  /\ answer = NoAnswer

Next ==
  \/ \E uri \in Uris, version \in Versions, t2 \in ClockValues, fails \in BOOLEAN :
       Get(uri, version, t2, fails)
  \/ \E uri \in Uris, version \in Versions : GetText(uri, version)
  \/ \E uri \in Uris : Invalidate(uri)
  \/ Clear
  \/ Tick

Spec == Init /\ [][Next]_vars

\* ========================================================================
\* The parser as a state machine: one step per pass of the top-level loop
\* ========================================================================

MaxFrags == 2       \* fragments per parsed text

\* The texts are the concatenations of at most MaxFrags of these fragments.
Fragments == {
  <<"p","i","p","e","l","i","n","e"," ","p"," ","="," ","|",">"," ","r","e","s","u","l","t"," ">>,
  <<"a","(","9",")",":"," ">>,
  <<"a","(","9",")","\n">>,
  <<"o","k","(","2","0","0",")",":"," ","|",">"," ","j","q",":"," ",BT,"x",BT," ">>,
  <<"|",">"," ","f","\n">>,
  <<"G","E","T"," ","/","x"," ","|",">"," ","p","i","p","e","l","i","n","e",":"," ","p"," ">>,
  <<"G","E","T"," ","/","x"," ">>,
  <<"p","g"," ","q"," ","="," ",BT,"s",BT," ">>,
  <<BT>>,
  <<"a","(","9",")"," ",BT,"\n">>,
  <<"o","k","(","2","0","0",")",":"," ","|",">"," ","a",":"," ","b","\n"," ","w","(","9","9","9",")",":"," ","|",">"," ","a",":"," ","b","\n">>,
  <<"o","k","(","2","0","0",")",":"," ","|",">"," ","a",":"," ","b","\n"," ","w","(","0","9","9","9",")",":"," ","|",">"," ","a",":"," ","b","\n">>,
  <<"c","o","n","f","i","g"," ","c"," ","{"," ","k",":"," ","5"," ","}"," ">>,
  <<"d","e","s","c","r","i","b","e"," ","\"","d","\""," ">>,
  <<"i","t"," ","\"","t","\""," ","w","h","e","n"," ","c","a","l","l","i","n","g"," ","G","E","T"," ","/","x","\n"," ","t","h","e","n"," ","s","t","a","t","u","s"," ","i","s"," ","2","0","0","\n">>,
  <<"w","i","t","h"," ","m","o","c","k"," ","p","g",".","q"," ","r","e","t","u","r","n","i","n","g"," ",BT,"r",BT," ">> }

RECURSIVE Concat(_)
Concat(frags) == IF Len(frags) = 0 THEN <<>> ELSE Head(frags) \o Concat(Tail(frags))

Texts == { Concat(fs) : fs \in UNION { [1..n -> Fragments] : n \in 0..MaxFrags } }

\* parseProgram up to the loop: the skipSpaces() of line 160
ParserInit ==
  /\ \E text \in Texts : parser = skipSpaces(NewParser(text))
  /\ program = EmptyProgram
  /\ pc = "loop"
  /\ cache = <<>>
  /\ clock = 0
  /\ parsed = FALSE
  /\ lastCall = NoCall
  /\ document = <<>>
  /\ answer = NoAnswer

\* a pass of the loop that ends in the given branch
LoopPass(branch) ==
  /\ pc = "loop"
  /\ ~eof(parser)
  /\ Let(production("parseProgramIteration", parser), LAMBDA it :
         /\ it.branch = branch
         /\ parser' = it.s
         /\ program' = pushed(program, it)
         /\ pc' = IF Threw(it.s) THEN "threw" ELSE "loop")
  /\ UNCHANGED <<cacheVars, symbolVars>>

PassConfig == LoopPass("config")

PassPipeline == LoopPass("pipeline")

PassVariable == LoopPass("variable")

PassRoute == LoopPass("route")

PassDescribe == LoopPass("describe")

PassFallback == LoopPass("fallback")

\* the loop ends (its condition fails, or the break of line 170), the backtick
\* count is checked and parseProgram returns
Finish ==
  /\ pc = "loop"
  /\ Let(production("parseProgramIteration", parser), LAMBDA it :
     Let(IF eof(parser) THEN parser ELSE it.s, LAMBDA s :
         /\ eof(parser) \/ it.branch = "break"
         /\ parser' = parseProgramFinish(s, program)
         /\ pc' = IF Threw(parser') THEN "threw" ELSE "done"))
  /\ UNCHANGED program
  /\ UNCHANGED <<cacheVars, symbolVars>>

ParserNext ==
  \/ PassConfig
  \/ PassPipeline
  \/ PassVariable
  \/ PassRoute
  \/ PassDescribe
  \/ PassFallback
  \/ Finish

ParserSpec == ParserInit /\ [][ParserNext]_vars

\* ========================================================================
\* Properties of the DocumentCache (specification Spec)
\* ========================================================================

\* the entries the Map holds for a uri
EntriesOf(c, uri) == {i \in 1..Len(c) : c[i].key = uri}

\* the Map holds the uri under this version
Cached(c, uri, version) == \E i \in EntriesOf(c, uri) : c[i].value.version = version

\* C1: a get for a uri that is cached under the same version does not invoke
\* the parser and returns the program and the diagnostics of the entry; called
\* right after a get of the same uri and version, it returns what that get
\* returned.
C1_HitDoesNotParse ==
  [][ (lastCall'.op = "get" /\ Cached(cache, lastCall'.uri, lastCall'.version))
        => /\ lastCall'.parses = 0
           /\ lastCall'.exc = "none"
           /\ \E i \in EntriesOf(cache, lastCall'.uri) :
                lastCall'.result = [program |-> cache[i].value.program,
                                    diagnostics |-> cache[i].value.diagnostics]
           /\ lastCall'.result = [program |-> parseDocument(lastCall'.version).program,
                                   diagnostics |-> parseDocument(lastCall'.version).diagnostics]
           /\ ( /\ lastCall.op = "get" /\ lastCall.exc = "none"
                /\ lastCall.uri = lastCall'.uri /\ lastCall.version = lastCall'.version )
                => lastCall'.result = lastCall.result ]_vars

C1_Witness ==
  /\ lastCall.op = "get" /\ lastCall.cached = "current" /\ lastCall.parses = 0
  /\ Cached(cache, lastCall.uri, lastCall.version)

\* C2: a get for a uri that is cached under another version invokes the
\* parser once and leaves one entry for the uri, whose version, text, program
\* and diagnostics are those of this call; the Map never holds two entries for
\* one uri.
C2_StaleReplacedWhole ==
  /\ [][ ( /\ lastCall'.op = "get" /\ lastCall'.exc = "none"
           /\ EntriesOf(cache, lastCall'.uri) # {}
           /\ ~Cached(cache, lastCall'.uri, lastCall'.version) )
           => /\ lastCall'.parses = 1
              /\ \E i \in EntriesOf(cache', lastCall'.uri) :
                   /\ cache'[i].value.version = lastCall'.version
                   /\ cache'[i].value.text = getText(lastCall'.version)
                   /\ cache'[i].value.program = lastCall'.result.program
                   /\ cache'[i].value.diagnostics = lastCall'.result.diagnostics
                   /\ parseDocument(lastCall'.version) =
                        [exc |-> "none", program |-> cache'[i].value.program,
                         diagnostics |-> cache'[i].value.diagnostics] ]_vars
  /\ [](\A uri \in Uris : Cardinality(EntriesOf(cache, uri)) <= 1)

C2_Witness ==
  /\ lastCall.op = "get" /\ lastCall.cached = "stale" /\ lastCall.exc = "none"
  /\ Cached(cache, lastCall.uri, lastCall.version)

\* C3 as stated: the parser is never invoked a second time for a pair it has
\* already parsed.
C3_NeverParsedTwice == ~lastCall.again

\* C3, amended: the parser is invoked a second time for a pair it has already
\* parsed only when the Map no longer holds the uri under that version.
C3_ParsedAgainOnlyWhenNotCached ==
  [][ lastCall'.again => ~Cached(cache, lastCall'.uri, lastCall'.version) ]_vars

C3_Witness == lastCall.again /\ lastCall.exc = "none"

\* C4: when a call has returned, the Map holds at most maxCacheSize entries.
C4_SizeWithinBound == Len(cache) <= maxCacheSize

C4_Witness ==
  lastCall.op = "get" /\ lastCall.removed > 0 /\ Len(cache) = maxCacheSize

\* C5: invalidate removes the entries of its uri and leaves the others as they
\* were, clear removes all entries, both leave an Map without the uri, or an
\* empty one, as it was, and a get for a uri the Map does not hold parses.
C5_InvalidateAndClear ==
  [][ /\ lastCall'.op = "invalidate"
           => /\ EntriesOf(cache', lastCall'.uri) = {}
              /\ \A uri \in Uris \ {lastCall'.uri} :
                   {cache'[i] : i \in EntriesOf(cache', uri)} =
                   {cache[i] : i \in EntriesOf(cache, uri)}
              /\ Len(cache') = Len(cache) - Cardinality(EntriesOf(cache, lastCall'.uri))
              /\ (EntriesOf(cache, lastCall'.uri) = {} => cache' = cache)
      /\ lastCall'.op = "clear" => cache' = <<>>
      /\ (lastCall'.op = "get" /\ EntriesOf(cache, lastCall'.uri) = {})
           => lastCall'.parses = 1 ]_vars

C5_Witness ==
  lastCall.op = "invalidate" /\ lastCall.removed = 1 /\ Len(cache) >= 1

\* C6: a get whose rebuild raises an exception, for a uri cached under another
\* version, leaves the Map as it was: the older entry is still there and
\* nothing is stored for the new version.
C6_FailedRebuildKeepsEntry ==
  [][ ( /\ lastCall'.op = "get" /\ lastCall'.exc # "none"
        /\ EntriesOf(cache, lastCall'.uri) # {} )
        => /\ cache' = cache
           /\ ~Cached(cache', lastCall'.uri, lastCall'.version) ]_vars

C6_Witness ==
  /\ lastCall.op = "get" /\ lastCall.exc # "none" /\ lastCall.cached = "stale"
  /\ EntriesOf(cache, lastCall.uri) # {}

\* ========================================================================
\* Properties of the parser (specification ParserSpec)
\* ========================================================================

ProgramLists == {"configs", "pipelines", "variables", "routes", "describes"}

IsUnrecognized(d) == d.message = <<"Unrecognized or unsupported syntax">> /\ d.severity = "warning"

IsInvalidStatus(d) == d.message[1] = "Invalid HTTP status code: " /\ d.severity = "error"

IsUnclosedBacktick(d) == d.message = <<"Unclosed backtick-delimited string">> /\ d.severity = "warning"

Diagnostics(s) == {s.diagnostics[i] : i \in 1..Len(s.diagnostics)}

\* the result branches of a pipeline, nested ones included
RECURSIVE BranchesOfPipeline(_)
BranchesOfPipeline(pipeline) ==
  UNION { IF pipeline.steps[i].kind = "Result"
          THEN UNION { {pipeline.steps[i].branches[j]}
                         \cup BranchesOfPipeline(pipeline.steps[i].branches[j].pipeline)
                       : j \in 1..Len(pipeline.steps[i].branches) }
          ELSE {}
          : i \in 1..Len(pipeline.steps) }

\* the result branches of a Program
BranchesOfProgram(prog) ==
  UNION ( { BranchesOfPipeline(prog.pipelines[i].pipeline) : i \in 1..Len(prog.pipelines) }
          \cup { IF prog.routes[i].pipeline.kind = "Inline"
                 THEN BranchesOfPipeline(prog.routes[i].pipeline.pipeline) ELSE {}
                 : i \in 1..Len(prog.routes) } )

\* C7: every pass of the top-level loop of parseProgram moves the cursor
\* forward, a pass that ends in a production as well as one that ends in the
\* fallback, and the cursor never passes the end of the text; the loop
\* therefore makes at most text.length passes.
C7_CursorAdvances ==
  /\ [][ (pc = "loop" /\ pc' = "loop") => parser'.pos > parser.pos ]_vars
  /\ [](0 <= parser.pos /\ parser.pos <= parser.len)

C7_Witness ==
  /\ pc = "done"
  /\ Len(parser.val.pipelines) > 0
  /\ \E d \in Diagnostics(parser) : IsUnrecognized(d)

\* C8: no exception reaches the caller of parseProgram,
\* parseProgramWithDiagnostics, getPipelineRanges or getVariableRanges, and
\* the Program returned has all five lists.
C8_NeverThrows ==
  /\ pc # "threw"
  /\ parser.exc = "none"
  /\ pc = "done"
       => /\ DOMAIN parser.val = ProgramLists
          /\ parseProgram(parser.text) = [exc |-> "none", program |-> parser.val]
          /\ parseProgramWithDiagnostics(parser.text) =
               [exc |-> "none", program |-> parser.val, diagnostics |-> parser.diagnostics]
          /\ getPipelineRanges(parser.text) = [exc |-> "none", ranges |-> parser.pipelineRanges]
          /\ getVariableRanges(parser.text) = [exc |-> "none", ranges |-> parser.variableRanges]

\* a text on which parsePipelineRef raises its plain Error at some position
C8_Witness ==
  /\ pc = "done"
  /\ \E i \in 0..parser.len :
       parsePipelineRef([NewParser(parser.text) EXCEPT !.pos = i]).exc = "Error"
  /\ \E d \in Diagnostics(parser) : IsUnrecognized(d)

\* C9: every diagnostic has 0 <= start <= end <= text.length.
C9_DiagnosticsWithinText ==
  \A d \in Diagnostics(parser) : 0 <= d.start /\ d.start <= d.end /\ d.end <= parser.len

C9_Witness ==
  /\ pc = "done"
  /\ \E d \in Diagnostics(parser) : IsUnrecognized(d)
  /\ \E d \in Diagnostics(parser) : IsInvalidStatus(d)
  /\ \E d \in Diagnostics(parser) : IsUnclosedBacktick(d)

\* C10: when parseProgram has returned, every Invalid HTTP status code error
\* has a result branch with that status code in the Program, and every result
\* branch of the Program with a status code outside 100..599 has such an error.
C10_InvalidStatusReportedAndRecorded ==
  pc = "done"
    => /\ \A d \in Diagnostics(parser) :
            IsInvalidStatus(d)
              => \E br \in BranchesOfProgram(parser.val) : br.statusCode = d.message[2]
       /\ \A br \in BranchesOfProgram(parser.val) :
            (br.statusCode < 100 \/ br.statusCode > 599)
              => \E d \in Diagnostics(parser) :
                   IsInvalidStatus(d) /\ d.message[2] = br.statusCode

\* the diagnostics of a parser state that satisfy the given test, by index
InvalidStatusAt(s) == {i \in 1..Len(s.diagnostics) : IsInvalidStatus(s.diagnostics[i])}

UnclosedBacktickAt(s) == {i \in 1..Len(s.diagnostics) : IsUnclosedBacktick(s.diagnostics[i])}

\* the range [start, end) of the text is a whole run of digits written
\* between the parentheses of a result branch
IsStatusCodeSpan(text, start, end) ==
  /\ 0 < start /\ start < end /\ end < Len(text)
  /\ text[start] = "("
  /\ text[end + 1] = ")"
  /\ \A i \in (start + 1)..end : text[i] \in Digits

\* C11: when the Program holds exactly two result branches, one with a status
\* code within 100..599 and one with a status code outside of it, the
\* diagnostics hold exactly one Invalid HTTP status code error and its range
\* is the whole run of digits written for the status code.
C11_OneErrorAtTheDigits ==
  (/\ pc = "done"
   /\ Cardinality(BranchesOfProgram(parser.val)) = 2
   /\ \E br \in BranchesOfProgram(parser.val) : br.statusCode \in 100..599
   /\ \E br \in BranchesOfProgram(parser.val) : br.statusCode \notin 100..599)
    => /\ Cardinality(InvalidStatusAt(parser)) = 1
       /\ \A i \in InvalidStatusAt(parser) :
            IsStatusCodeSpan(parser.text, parser.diagnostics[i].start, parser.diagnostics[i].end)

\* C12: when parseProgram has returned, the diagnostics hold the Unclosed
\* backtick-delimited string warning exactly when the text has an odd number
\* of backticks; the warning is then the last diagnostic, there is no second
\* one, and its range is the one character of the last backtick of the text.
C12_UnclosedBacktickWarning ==
  pc = "done"
    => /\ (UnclosedBacktickAt(parser) # {})
            <=> (Cardinality({i \in 1..parser.len : parser.text[i] = BT}) % 2 = 1)
       /\ \A i \in UnclosedBacktickAt(parser) :
            /\ i = Len(parser.diagnostics)
            /\ UnclosedBacktickAt(parser) = {i}
            /\ parser.diagnostics[i].end = parser.diagnostics[i].start + 1
            /\ parser.text[parser.diagnostics[i].start + 1] = BT
            /\ \A j \in (parser.diagnostics[i].start + 2)..parser.len : parser.text[j] # BT

C12_Witness ==
  /\ pc = "done"
  /\ Cardinality({i \in 1..parser.len : parser.text[i] = BT}) = 3
  /\ Len(parser.diagnostics) >= 2
  /\ IsUnclosedBacktick(parser.diagnostics[Len(parser.diagnostics)])

\* ========================================================================
\* Regular expressions
\* ========================================================================
\* A regular expression is the tree of its source; exec runs the backtracking
\* match of ECMAScript on it: alternatives in the order written, a greedy
\* quantifier trying the longer match first and a lazy one the shorter.

Chars(set) == [op |-> "chars", set |-> set]          \* [...], \s, \w

NotChars(set) == [op |-> "notchars", set |-> set]    \* [^...], \S, .

AnyChar == [op |-> "any"]                            \* [\s\S]

Str(str) == [op |-> "str", str |-> str]              \* literal characters

Cat(items) == [op |-> "cat", items |-> items]        \* r1 r2 ...

Alt(items) == [op |-> "alt", items |-> items]        \* r1 | r2 | ...

Star(r) == [op |-> "star", r |-> r]                  \* r*  (r takes a character)

Lazy(r) == [op |-> "lazy", r |-> r]                  \* r*?

Plus(r) == Cat(<<r, Star(r)>>)                       \* r+

Opt(r) == Alt(<<r, Cat(<<>>)>>)                      \* r?

Group(k, r) == [op |-> "group", k |-> k, r |-> r]    \* (r), the k-th group

NonCapturing(r) == r                                 \* (?:r)

Bol == [op |-> "bol"]                                \* ^ without the m flag

Eot == [op |-> "eot"]                                \* $ without the m flag

Ahead(r) == [op |-> "ahead", r |-> r]                \* (?=r)

Dot == NotChars({"\n", "\r"})                        \* .

\* the groups of a match before any has closed (no regular expression here
\* has more than four); a group that took no part in the match stays <<-1, -1>>
NoGroups == << <<-1, -1>>, <<-1, -1>>, <<-1, -1>>, <<-1, -1>> >>

NoMatch == [ok |-> FALSE]

\* whether the one-character expression n takes the character c
takes(n, c) ==
  CASE n.op = "chars" -> c \in n.set
    [] n.op = "notchars" -> c \notin n.set
    [] n.op = "any" -> TRUE

\* the offset after the longest run of characters from offset i that n takes
runEnd(text, n, i) ==
  CHOOSE k \in i..Len(text) :
    /\ \A j \in (i + 1)..k : takes(n, text[j])
    /\ k = Len(text) \/ ~takes(n, text[k + 1])

\* the ways an expression can match from a state [end, groups] of the match so
\* far, in the order in which backtracking tries them: the alternatives of
\* r1|r2 left to right, the longer repetitions of r* first, the shorter ones of
\* r*? first
RECURSIVE matchesOf(_, _, _)
RECURSIVE matchesOfEach(_, _, _, _, _)
RECURSIVE matchesOfCat(_, _, _)
RECURSIVE matchesOfAlt(_, _, _)

matchesOf(text, n, st) ==
  CASE n.op \in {"chars", "notchars", "any"} ->
         IF st.end < Len(text) /\ takes(n, text[st.end + 1])
         THEN <<[st EXCEPT !.end = @ + 1]>> ELSE <<>>
    [] n.op = "str" ->
         IF st.end + Len(n.str) <= Len(text)
            /\ SubSeq(text, st.end + 1, st.end + Len(n.str)) = n.str
         THEN <<[st EXCEPT !.end = @ + Len(n.str)]>> ELSE <<>>
    [] n.op = "cat" -> matchesOfCat(text, n.items, <<st>>)
    [] n.op = "alt" -> matchesOfAlt(text, n.items, st)
    [] n.op = "star" ->
         Let(runEnd(text, n.r, st.end), LAMBDA k :
             [j \in 1..(k - st.end + 1) |-> [st EXCEPT !.end = k - j + 1]])
    [] n.op = "lazy" ->
         Let(runEnd(text, n.r, st.end), LAMBDA k :
             [j \in 1..(k - st.end + 1) |-> [st EXCEPT !.end = st.end + j - 1]])
    [] n.op = "group" ->
         Let(matchesOf(text, n.r, st), LAMBDA inner :
             [j \in 1..Len(inner) |->
                [inner[j] EXCEPT !.groups[n.k] = <<st.end, inner[j].end>>]])
    [] n.op = "bol" -> IF st.end = 0 THEN <<st>> ELSE <<>>
    [] n.op = "eot" -> IF st.end = Len(text) THEN <<st>> ELSE <<>>
    [] n.op = "ahead" -> IF Len(matchesOf(text, n.r, st)) > 0 THEN <<st>> ELSE <<>>

\* the matches of n from each of the states lo..hi, in order
matchesOfEach(text, n, states, lo, hi) ==
  IF lo > hi THEN <<>>
  ELSE IF lo = hi THEN matchesOf(text, n, states[lo])
  ELSE matchesOfEach(text, n, states, lo, (lo + hi) \div 2)
       \o matchesOfEach(text, n, states, (lo + hi) \div 2 + 1, hi)

matchesOfCat(text, items, states) ==
  IF Len(items) = 0 \/ Len(states) = 0 THEN states
  ELSE matchesOfCat(text, Tail(items),
                    matchesOfEach(text, Head(items), states, 1, Len(states)))

matchesOfAlt(text, items, st) ==
  IF Len(items) = 0 THEN <<>>
  ELSE matchesOf(text, Head(items), st) \o matchesOfAlt(text, Tail(items), st)

\* the match of the sequence todo of expressions at offset i of the text,
\* given the groups closed so far: the first one backtracking finds
run(text, todo, i, groups) ==
  Let(matchesOfCat(text, todo, <<[end |-> i, groups |-> groups]>>), LAMBDA found :
      IF Len(found) = 0 THEN NoMatch
      ELSE [ok |-> TRUE, end |-> found[1].end, groups |-> found[1].groups])

\* re.exec(text) with re.lastIndex = lastIndex, for a regular expression with
\* the g flag: the first match at or after lastIndex, or null.  A match m has
\* m.index, the offset m.end after it (the next lastIndex) and its groups.
exec(re, text, lastIndex) ==
  Let({j \in lastIndex..Len(text) : run(text, <<re>>, j, NoGroups).ok}, LAMBDA starts :
      IF starts = {} THEN [null |-> TRUE]
      ELSE Let(CHOOSE j \in starts : \A k \in starts : j <= k, LAMBDA index :
           Let(run(text, <<re>>, index, NoGroups), LAMBDA m :
               [null |-> FALSE, index |-> index, end |-> m.end, groups |-> m.groups])))

\* the matches of the loop  for (let m; (m = re.exec(text)); ), in order
RECURSIVE execAll(_, _, _)
execAll(re, text, lastIndex) ==
  Let(exec(re, text, lastIndex), LAMBDA m :
      IF m.null THEN <<>> ELSE <<m>> \o execAll(re, text, m.end))

\* m[0] and m[k] of a match on the text; a group that took no part is ""
MatchText(text, m) == Slice(text, m.index, m.end)

GroupText(text, m, k) ==
  IF m.groups[k][1] < 0 THEN <<>> ELSE Slice(text, m.groups[k][1], m.groups[k][2])

\* str.indexOf(name) and str.lastIndexOf(name)
OccurrencesOf(str, name) ==
  {i \in 0..(Len(str) - Len(name)) : SubSeq(str, i + 1, i + Len(name)) = name}

indexOf(str, name) ==
  IF OccurrencesOf(str, name) = {} THEN -1
  ELSE CHOOSE i \in OccurrencesOf(str, name) : \A j \in OccurrencesOf(str, name) : i <= j

lastIndexOf(str, name) ==
  IF OccurrencesOf(str, name) = {} THEN -1
  ELSE CHOOSE i \in OccurrencesOf(str, name) : \A j \in OccurrencesOf(str, name) : i >= j

\* ========================================================================
\* Symbol collection (document-model.ts, document-cache.ts lines 133-384)
\* ========================================================================

\* Set.add: a Set as its elements in insertion order
SetAdd(set, x) == IF \E i \in 1..Len(set) : set[i] = x THEN set ELSE Append(set, x)

SetHas(set, x) == \E i \in 1..Len(set) : set[i] = x

\* key.split('::') of a key `${varType}::${varName}`
splitKey(key) ==
  Let(indexOf(key, <<":",":">>), LAMBDA i :
      [varType |-> Slice(key, 0, i), varName |-> Slice(key, i + 2, Len(key))])

findVariableNamePosition(text, range, varName) ==
  Let(Slice(text, range.start, range.end), LAMBDA declarationText :
  Let(lastIndexOf(declarationText, varName), LAMBDA nameIndex :
      IF nameIndex >= 0
      THEN [start |-> range.start + nameIndex, length |-> Len(varName)]
      ELSE [start |-> range.start, length |-> Len(varName)]))

findPipelineNamePosition(text, range, pipelineName) ==
  Let(Slice(text, range.start, range.end), LAMBDA declarationText :
  Let(indexOf(declarationText, pipelineName), LAMBDA nameIndex :
      IF nameIndex >= 0
      THEN [start |-> range.start + nameIndex, length |-> Len(pipelineName)]
      ELSE [start |-> range.start, length |-> Len(pipelineName)]))

\* the loop over variableRanges.entries() of createDocumentModel
RECURSIVE convertVariableRanges(_, _, _)
convertVariableRanges(text, entries, acc) ==
  IF Len(entries) = 0 THEN acc
  ELSE Let(Head(entries).key, LAMBDA key :
       Let(splitKey(key), LAMBDA parts :
       Let(IF MapHas(acc.variablesByType, parts.varType)
           THEN MapGet(acc.variablesByType, parts.varType) ELSE <<>>, LAMBDA names :
       Let(findVariableNamePosition(text, Head(entries).value, parts.varName), LAMBDA namePos :
           convertVariableRanges(text, Tail(entries),
             [variablesByType |-> MapSet(acc.variablesByType, parts.varType,
                                         SetAdd(names, parts.varName)),
              variablePositions |-> MapSet(acc.variablePositions, key, namePos)])))))

\* the loop over pipelineRanges.entries() of createDocumentModel
RECURSIVE convertPipelineRanges(_, _, _)
convertPipelineRanges(text, entries, acc) ==
  IF Len(entries) = 0 THEN acc
  ELSE Let(Head(entries).key, LAMBDA name :
       Let(findPipelineNamePosition(text, Head(entries).value, name), LAMBDA namePos :
           convertPipelineRanges(text, Tail(entries),
             [pipelineNames |-> SetAdd(acc.pipelineNames, name),
              pipelinePositions |-> MapSet(acc.pipelinePositions, name, namePos)])))

createDocumentModel(text) ==
  Let(parseProgramWithDiagnostics(text), LAMBDA parsedText :
  Let(getVariableRanges(text).ranges, LAMBDA variableRanges :
  Let(getPipelineRanges(text).ranges, LAMBDA pipelineRanges :
  Let(convertVariableRanges(text, variableRanges,
        [variablesByType |-> <<>>, variablePositions |-> <<>>]), LAMBDA variables :
  Let(convertPipelineRanges(text, pipelineRanges,
        [pipelineNames |-> <<>>, pipelinePositions |-> <<>>]), LAMBDA pipelines :
      [program |-> parsedText.program,
       diagnostics |-> parsedText.diagnostics,
       variablesByType |-> variables.variablesByType,
       pipelineNames |-> pipelines.pipelineNames,
       variablePositions |-> variables.variablePositions,
       pipelinePositions |-> pipelines.pipelinePositions,
       variableRefs |-> <<>>,
       pipelineRefs |-> <<>>,
       routes |-> [i \in 1..Len(parsedText.program.routes) |->
                     [method |-> parsedText.program.routes[i].method,
                      path |-> parsedText.program.routes[i].path,
                      lineNumber |-> 0]]])))))

collectDeclarationPositions(text) ==
  Let(createDocumentModel(text), LAMBDA documentModel :
      [variablePositions |-> documentModel.variablePositions,
       pipelinePositions |-> documentModel.pipelinePositions])

\* ---- collectReferencePositions ----

Whitespace == Chars(SpaceChars)                               \* \s

Identifier == Cat(<<Chars(IdentStartChars), Star(Chars(IdentContChars))>>)   \* [A-Za-z_][\w-]*

LineHead == Group(1, Alt(<<Bol, Str(<<"\n">>)>>))              \* (^|\n)

Returning ==   \* \s+returning\s+ and the backtick
  Cat(<<Plus(Whitespace), Str(<<"r","e","t","u","r","n","i","n","g">>), Plus(Whitespace), Str(<<BT>>)>>)

WithOrAnd == NonCapturing(Alt(<<Str(<<"w","i","t","h">>), Str(<<"a","n","d">>)>>))   \* (?:with|and)

pipeRefRe ==
  Cat(<<LineHead,
        Group(2, Cat(<<Star(Whitespace), Str(<<"|",">">>), Star(Whitespace),
                       Str(<<"p","i","p","e","l","i","n","e">>), Star(Whitespace),
                       Str(<<":">>), Star(Whitespace)>>)),
        Group(3, Identifier)>>)

whenPipeRe ==
  Cat(<<LineHead,
        Group(2, Cat(<<Star(Whitespace), Str(<<"w","h","e","n">>), Plus(Whitespace),
                       Str(<<"e","x","e","c","u","t","i","n","g">>), Plus(Whitespace),
                       Str(<<"p","i","p","e","l","i","n","e">>), Plus(Whitespace)>>)),
        Group(3, Identifier)>>)

mockPipeRe ==
  Cat(<<LineHead,
        Group(2, Cat(<<Star(Whitespace), WithOrAnd, Plus(Whitespace),
                       Str(<<"m","o","c","k">>), Plus(Whitespace),
                       Str(<<"p","i","p","e","l","i","n","e">>), Plus(Whitespace)>>)),
        Group(3, Identifier),
        Returning>>)

stepVarRe ==
  Cat(<<LineHead,
        Group(2, Cat(<<Star(Whitespace), Str(<<"|",">">>), Star(Whitespace),
                       Group(3, Identifier), Star(Whitespace),
                       Str(<<":">>), Star(Whitespace)>>)),
        Group(4, Identifier)>>)

whenVarRe ==
  Cat(<<LineHead,
        Group(2, Cat(<<Star(Whitespace), Str(<<"w","h","e","n">>), Plus(Whitespace),
                       Str(<<"e","x","e","c","u","t","i","n","g">>), Plus(Whitespace),
                       Str(<<"v","a","r","i","a","b","l","e">>), Plus(Whitespace),
                       Group(3, Identifier), Plus(Whitespace)>>)),
        Group(4, Identifier)>>)

mockVarRe ==
  Cat(<<LineHead,
        Group(2, Cat(<<Star(Whitespace), WithOrAnd, Plus(Whitespace),
                       Str(<<"m","o","c","k">>), Plus(Whitespace),
                       Group(3, Identifier), Str(<<".">>)>>)),
        Group(4, Identifier),
        Returning>>)

\* pushVar / pushPipe
pushRef(refs, key, start, length) ==
  MapSet(refs, key,
         Append(IF MapHas(refs, key) THEN MapGet(refs, key) ELSE <<>>,
                [start |-> start, length |-> length]))

\* prefixLen without the length of m[1]
prefixLenOfClause(text, m) == Len(GroupText(text, m, 2))

\* const prefixLen = (m[1] ? m[1].length : 0) + m[2].length
prefixLen(text, m) ==
  (IF Len(GroupText(text, m, 1)) > 0 THEN Len(GroupText(text, m, 1)) ELSE 0)
    + Len(GroupText(text, m, 2))

\* the loop over the found of one of the three regular expressions for
\* pipeline references: the name is m[3]
RECURSIVE pushPipeMatches(_, _, _)
pushPipeMatches(refs, text, found) ==
  IF Len(found) = 0 THEN refs
  ELSE Let(Head(found), LAMBDA m :
       Let(GroupText(text, m, 3), LAMBDA name :
       Let(m.index + prefixLen(text, m), LAMBDA start :
           pushPipeMatches(pushRef(refs, name, start, Len(name)), text, Tail(found)))))

\* the loop over the found of one of the three regular expressions for
\* variable references: the type is m[3], the name m[4]; the loop of stepVarRe
\* skips the step types in skipped
RECURSIVE pushVarMatches(_, _, _, _)
pushVarMatches(refs, text, found, skipped) ==
  IF Len(found) = 0 THEN refs
  ELSE Let(Head(found), LAMBDA m :
       Let(GroupText(text, m, 3), LAMBDA varType :
       Let(GroupText(text, m, 4), LAMBDA varName :
       Let(varType \o <<":",":">> \o varName, LAMBDA key :
       Let(m.index + prefixLen(text, m), LAMBDA start :
           IF varType \in skipped
           THEN pushVarMatches(refs, text, Tail(found), skipped)
           ELSE pushVarMatches(pushRef(refs, key, start, Len(varName)),
                               text, Tail(found), skipped))))))

collectReferencePositions(text) ==
  Let(pushPipeMatches(<<>>, text, execAll(pipeRefRe, text, 0)), LAMBDA refs1 :
  Let(pushPipeMatches(refs1, text, execAll(whenPipeRe, text, 0)), LAMBDA refs2 :
  Let(pushPipeMatches(refs2, text, execAll(mockPipeRe, text, 0)), LAMBDA pipelineRefs :
  Let(pushVarMatches(<<>>, text, execAll(stepVarRe, text, 0),
                     {<<"p","i","p","e","l","i","n","e">>}), LAMBDA refs4 :
  Let(pushVarMatches(refs4, text, execAll(whenVarRe, text, 0), {}), LAMBDA refs5 :
  Let(pushVarMatches(refs5, text, execAll(mockVarRe, text, 0), {}), LAMBDA variableRefs :
      [variableRefs |-> variableRefs, pipelineRefs |-> pipelineRefs]))))))

\* ---- collectHandlebarsContentRanges / collectHandlebarsSymbols ----

Handlebars == Str(<<"h","a","n","d","l","e","b","a","r","s">>)

\* the backtick, the content ([\s\S]*?) as group k, the backtick
BacktickContent(k) == Cat(<<Str(<<BT>>), Group(k, Lazy(AnyChar)), Str(<<BT>>)>>)

varRe ==
  Cat(<<LineHead, Star(Whitespace), Handlebars, Plus(Whitespace), Group(2, Identifier),
        Star(Whitespace), Str(<<"=">>), Star(Whitespace), BacktickContent(3)>>)

stepRe ==
  Cat(<<LineHead, Star(Whitespace), Str(<<"|",">">>), Star(Whitespace), Handlebars,
        Star(Whitespace), Str(<<":">>), Star(Whitespace), BacktickContent(2)>>)

\* the loop over the found of varRe (content = 3) or stepRe (content = 2)
RECURSIVE pushContentRanges(_, _, _, _)
pushContentRanges(ranges, text, found, content) ==
  IF Len(found) = 0 THEN ranges
  ELSE Let(Head(found), LAMBDA m :
       Let(indexOf(MatchText(text, m), <<BT>>), LAMBDA backtickRel :
       Let(m.index + backtickRel + 1, LAMBDA contentStart :
           pushContentRanges(
             IF backtickRel >= 0
             THEN Append(ranges, [start |-> contentStart,
                                  end |-> contentStart + Len(GroupText(text, m, content))])
             ELSE ranges,
             text, Tail(found), content))))

collectHandlebarsContentRanges(text) ==
  pushContentRanges(pushContentRanges(<<>>, text, execAll(varRe, text, 0), 3),
                    text, execAll(stepRe, text, 0), 2)

\* [A-Za-z_][\w./-]*|@partial-block
PartialName ==
  Alt(<<Cat(<<Chars(IdentStartChars), Star(Chars(IdentContChars \cup {".", "/"}))>>),
        Str(<<"@","p","a","r","t","i","a","l","-","b","l","o","c","k">>)>>)

includeRe == Cat(<<Str(<<"{","{",">">>), Star(Whitespace), Group(1, PartialName)>>)

blockIncludeRe == Cat(<<Str(<<"{","{","#",">">>), Star(Whitespace), Group(1, PartialName)>>)

inlineDefRe ==
  Cat(<<Str(<<"{","{","#","*","i","n","l","i","n","e">>), Plus(Whitespace), Str(<<"\"">>),
        Group(1, Plus(NotChars({"\""}))), Str(<<"\"">>), Star(Whitespace), Str(<<"}","}">>)>>)

inlineCloseRe ==
  Cat(<<Str(<<"{","{","/","i","n","l","i","n","e">>), Star(Whitespace), Str(<<"}","}">>)>>)

\* the loop over variablePositions.entries() of collectHandlebarsSymbols
RECURSIVE collectGlobalPartials(_, _)
collectGlobalPartials(declByName, entries) ==
  IF Len(entries) = 0 THEN declByName
  ELSE Let(Head(entries).key, LAMBDA key :
       Let(Head(entries).value, LAMBDA pos :
       Let(<<"h","a","n","d","l","e","b","a","r","s",":",":">>, LAMBDA prefix :
           collectGlobalPartials(
             IF Len(key) >= Len(prefix) /\ SubSeq(key, 1, Len(prefix)) = prefix
             THEN MapSet(declByName, Slice(key, Len(prefix), Len(key)),
                         [nameStart |-> pos.start, nameEnd |-> pos.start + pos.length])
             ELSE declByName,
             Tail(entries)))))

\* the loop over the found of inlineDefRe in the slice of a content range
RECURSIVE collectInlineDefs(_, _, _, _)
collectInlineDefs(acc, range, slice, found) ==
  IF Len(found) = 0 THEN acc
  ELSE Let(Head(found), LAMBDA m :
       Let(GroupText(slice, m, 1), LAMBDA name :
       Let(range.start + m.index + indexOf(MatchText(slice, m), name), LAMBDA nameStart :
       Let(range.start + m.index, LAMBDA blockStartAbs :
       Let(exec(inlineCloseRe, slice, m.index + Len(MatchText(slice, m))), LAMBDA close :
           collectInlineDefs(
             [inlineByName |-> MapSet(acc.inlineByName, name,
                                      [start |-> nameStart, end |-> nameStart + Len(name)]),
              inlineBlockByName |->
                IF ~close.null
                THEN MapSet(acc.inlineBlockByName, name,
                            [start |-> blockStartAbs,
                             end |-> range.start + close.index + Len(MatchText(slice, close))])
                ELSE acc.inlineBlockByName],
             range, slice, Tail(found)))))))

\* the loop over the found of includeRe or blockIncludeRe in the slice of a
\* content range
RECURSIVE collectUsages(_, _, _, _)
collectUsages(usagesByName, range, slice, found) ==
  IF Len(found) = 0 THEN usagesByName
  ELSE Let(Head(found), LAMBDA m :
       Let(GroupText(slice, m, 1), LAMBDA name :
       Let(range.start + m.index + indexOf(MatchText(slice, m), name), LAMBDA nameStart :
           collectUsages(
             IF name = <<"@","p","a","r","t","i","a","l","-","b","l","o","c","k">>
             THEN usagesByName
             ELSE MapSet(usagesByName, name,
                         Append(IF MapHas(usagesByName, name)
                                THEN MapGet(usagesByName, name) ELSE <<>>,
                                [start |-> nameStart, end |-> nameStart + Len(name)])),
             range, slice, Tail(found)))))

\* the loop over contentRanges of collectHandlebarsSymbols
RECURSIVE collectContents(_, _, _)
collectContents(acc, text, contentRanges) ==
  IF Len(contentRanges) = 0 THEN acc
  ELSE Let(Head(contentRanges), LAMBDA range :
       Let(Slice(text, range.start, range.end), LAMBDA slice :
       Let(collectInlineDefs([inlineByName |-> <<>>, inlineBlockByName |-> <<>>],
                             range, slice, execAll(inlineDefRe, slice, 0)), LAMBDA inline :
       Let(collectUsages(acc.usagesByName, range, slice,
                         execAll(includeRe, slice, 0)), LAMBDA simple :
       Let(collectUsages(simple, range, slice,
                         execAll(blockIncludeRe, slice, 0)), LAMBDA usages :
           collectContents(
             [usagesByName |-> usages,
              inlineDefsByContent |->
                Append(acc.inlineDefsByContent,
                       [range |-> range, inlineByName |-> inline.inlineByName,
                        inlineBlockByName |-> inline.inlineBlockByName])],
             text, Tail(contentRanges)))))))

collectHandlebarsSymbols(text) ==
  Let(collectGlobalPartials(<<>>, collectDeclarationPositions(text).variablePositions),
      LAMBDA declByName :
  Let(collectHandlebarsContentRanges(text), LAMBDA contentRanges :
  Let(collectContents([usagesByName |-> <<>>, inlineDefsByContent |-> <<>>],
                      text, contentRanges), LAMBDA contents :
      [declByName |-> declByName,
       contentRanges |-> contentRanges,
       usagesByName |-> contents.usagesByName,
       inlineDefsByContent |-> contents.inlineDefsByContent])))

\* ---- buildSymbolTable ----

\* the loop over program.variables
RECURSIVE declaredVariables(_, _)
declaredVariables(variables, list) ==
  IF Len(list) = 0 THEN variables
  ELSE Let(Head(list), LAMBDA v :
           declaredVariables(
             MapSet(variables, v.varType,
                    SetAdd(IF MapHas(variables, v.varType)
                           THEN MapGet(variables, v.varType) ELSE <<>>, v.name)),
             Tail(list)))

\* the loop over program.pipelines
RECURSIVE declaredPipelines(_, _)
declaredPipelines(pipelines, list) ==
  IF Len(list) = 0 THEN pipelines
  ELSE declaredPipelines(SetAdd(pipelines, Head(list).name), Tail(list))

\* the two loops over the ranges: { start: r.start, length: r.end - r.start }
rangePositions(ranges) ==
  [i \in 1..Len(ranges) |->
     [key |-> ranges[i].key,
      value |-> [start |-> ranges[i].value.start,
                 length |-> ranges[i].value.end - ranges[i].value.start]]]

buildSymbolTable(prog, text) ==
  Let(collectReferencePositions(text), LAMBDA refs :
      [variables |-> declaredVariables(<<>>, prog.variables),
       pipelines |-> declaredPipelines(<<>>, prog.pipelines),
       variableRefs |-> refs.variableRefs,
       pipelineRefs |-> refs.pipelineRefs,
       variablePositions |-> rangePositions(getVariableRanges(text).ranges),
       pipelinePositions |-> rangePositions(getPipelineRanges(text).ranges),
       handlebars |-> collectHandlebarsSymbols(text)])

\* ========================================================================
\* DocumentValidator (part_003)
\* ========================================================================

\* doc.positionAt(offset) of the TextDocument: the offset, brought within the
\* text, as the number of the line and the character within the line
positionAt(text, offset) ==
  Let(Max(0, Min(offset, Len(text))), LAMBDA at :
      [line |-> Cardinality({i \in 1..at : text[i] = "\n"}),
       character |-> at - LineStartFrom(text, at)])

\* the push of validateReferences
push(diagnostics, text, severity, start, end, message) ==
  Append(diagnostics,
         [severity |-> severity,
          range |-> [start |-> positionAt(text, start), end |-> positionAt(text, end)],
          message |-> message,
          source |-> "webpipe-lsp"])

\* REGEX_PATTERNS.VAR_DECL and REGEX_PATTERNS.PIPE_DECL of constants.ts
VAR_DECL ==
  Cat(<<LineHead, Star(Whitespace), Group(2, Identifier), Plus(Whitespace),
        Group(3, Identifier), Star(Whitespace), Str(<<"=">>), Star(Whitespace),
        Str(<<BT>>), Lazy(AnyChar), Str(<<BT>>)>>)

PIPE_DECL ==
  Cat(<<LineHead, Star(Whitespace), Str(<<"p","i","p","e","l","i","n","e">>), Plus(Whitespace),
        Group(2, Identifier), Star(Whitespace), Str(<<"=">>)>>)

\* the loop over the matches of VAR_DECL: acc holds the diagnostics and varDeclSeen
RECURSIVE duplicateVariables(_, _, _)
duplicateVariables(acc, text, found) ==
  IF Len(found) = 0 THEN acc
  ELSE Let(Head(found), LAMBDA m :
       Let(GroupText(text, m, 2), LAMBDA varType :
       Let(GroupText(text, m, 3), LAMBDA varName :
       Let(varType \o <<":",":">> \o varName, LAMBDA key :
       Let(m.index + lastIndexOf(MatchText(text, m), varName), LAMBDA nameStart :
           duplicateVariables(
             [diagnostics |->
                IF SetHas(acc.seen, key)
                THEN push(acc.diagnostics, text, "Warning", nameStart, nameStart + Len(varName),
                          <<"Duplicate ", varType, " variable: ", varName>>)
                ELSE acc.diagnostics,
              seen |-> SetAdd(acc.seen, key)],
             text, Tail(found)))))))

\* the loop over the matches of PIPE_DECL: acc holds the diagnostics and pipelineSeen
RECURSIVE duplicatePipelines(_, _, _)
duplicatePipelines(acc, text, found) ==
  IF Len(found) = 0 THEN acc
  ELSE Let(Head(found), LAMBDA m :
       Let(GroupText(text, m, 2), LAMBDA name :
       Let(m.index + lastIndexOf(MatchText(text, m), name), LAMBDA nameStart :
           duplicatePipelines(
             [diagnostics |->
                IF SetHas(acc.seen, name)
                THEN push(acc.diagnostics, text, "Warning", nameStart, nameStart + Len(name),
                          <<"Duplicate pipeline: ", name>>)
                ELSE acc.diagnostics,
              seen |-> SetAdd(acc.seen, name)],
             text, Tail(found)))))

\* collectDeclarations(text, push, program): the diagnostics it pushes onto
\* the given ones, and the sets it returns
collectDeclarations(text, diagnostics, prog) ==
  Let(duplicateVariables([diagnostics |-> diagnostics, seen |-> <<>>],
                         text, execAll(VAR_DECL, text, 0)), LAMBDA vars1 :
  Let(duplicatePipelines([diagnostics |-> vars1.diagnostics, seen |-> <<>>],
                         text, execAll(PIPE_DECL, text, 0)), LAMBDA pipes :
      [variablesByType |-> declaredVariables(<<>>, prog.variables),
       pipelineNames |-> declaredPipelines(<<>>, prog.pipelines),
       diagnostics |-> pipes.diagnostics]))

\* u.start >= entry.range.start && u.start <= entry.range.end
Within(offset, range) == offset >= range.start /\ offset <= range.end

\* the entries of a Map of arrays as one list of [name, use], in the order of
\* the two nested loops over usagesByName.entries() and the uses
RECURSIVE usesInOrder(_)
usesInOrder(usagesByName) ==
  IF Len(usagesByName) = 0 THEN <<>>
  ELSE [i \in 1..Len(Head(usagesByName).value) |->
          [name |-> Head(usagesByName).key, use |-> Head(usagesByName).value[i]]]
       \o usesInOrder(Tail(usagesByName))

\* the first entry of inlineDefsByContent whose range holds the offset (the
\* loop that ends in break), or <<>>
firstContentAt(hb, offset) ==
  IF \E i \in 1..Len(hb.inlineDefsByContent) : Within(offset, hb.inlineDefsByContent[i].range)
  THEN <<hb.inlineDefsByContent[
           CHOOSE i \in 1..Len(hb.inlineDefsByContent) :
             /\ Within(offset, hb.inlineDefsByContent[i].range)
             /\ \A j \in 1..(i - 1) : ~Within(offset, hb.inlineDefsByContent[j].range)]>>
  ELSE <<>>

hasInline(entry, name) == MapHas(entry.inlineByName, name) \/ MapHas(entry.inlineBlockByName, name)

hasAnyInlineDecl(hb, name) ==
  \E i \in 1..Len(hb.inlineDefsByContent) : hasInline(hb.inlineDefsByContent[i], name)

\* the two nested loops of validateHandlebarsPartialReferences
RECURSIVE unknownPartials(_, _, _, _)
unknownPartials(diagnostics, text, hb, uses) ==
  IF Len(uses) = 0 THEN diagnostics
  ELSE Let(Head(uses).name, LAMBDA name :
       Let(Head(uses).use, LAMBDA u :
       Let(firstContentAt(hb, u.start), LAMBDA content :
       Let(Len(content) > 0 /\ hasInline(content[1], name), LAMBDA hasInlineDeclInSameBlock :
           unknownPartials(
             IF ~hasInlineDeclInSameBlock /\ ~MapHas(hb.declByName, name)
                  /\ ~hasAnyInlineDecl(hb, name)
             THEN push(diagnostics, text, "Warning", u.start, u.end,
                       <<"Unknown Handlebars partial: ", name>>)
             ELSE diagnostics,
             text, hb, Tail(uses))))))

validateHandlebarsPartialReferences(text, diagnostics) ==
  Let(collectHandlebarsSymbols(text), LAMBDA hb :
      unknownPartials(diagnostics, text, hb, usesInOrder(hb.usagesByName)))

\* ========================================================================
\* LanguageProviders (part_000), utils.ts
\* ========================================================================

\* getWordAt(text, offset) of utils.ts: WORD_CHAR is [A-Za-z0-9_-]
RECURSIVE wordStart(_, _)
wordStart(text, start) ==
  IF start > 0 /\ text[start] \in IdentContChars THEN wordStart(text, start - 1) ELSE start

RECURSIVE wordEnd(_, _)
wordEnd(text, end) ==
  IF end < Len(text) /\ text[end + 1] \in IdentContChars THEN wordEnd(text, end + 1) ELSE end

getWordAt(text, offset) ==
  Let(wordStart(text, offset), LAMBDA start :
  Let(wordEnd(text, offset), LAMBDA end :
      IF start = end THEN [null |-> TRUE]
      ELSE IF text[start + 1] \notin IdentStartChars THEN [null |-> TRUE]
      ELSE [null |-> FALSE, word |-> Slice(text, start, end), start |-> start, end |-> end]))

\* createMarkdownCodeBlock(language, content) of utils.ts
createMarkdownCodeBlock(language, content) ==
  <<BT, BT, BT>> \o language \o <<"\n">> \o content \o <<"\n", BT, BT, BT>>

\* the line of the offset: text.lastIndexOf('\n', max(0, offset - 1)) + 1 up
\* to text.indexOf('\n', offset), or to the end of the text
lineTextAt(text, offset) ==
  Let({i \in 0..Min(Max(0, offset - 1), Len(text) - 1) : text[i + 1] = "\n"}, LAMBDA before :
  Let({i \in offset..(Len(text) - 1) : text[i + 1] = "\n"}, LAMBDA after :
  Let(IF before = {} THEN 0 ELSE (CHOOSE i \in before : \A j \in before : j <= i) + 1,
      LAMBDA lineStart :
  Let(IF after = {} THEN Len(text) ELSE CHOOSE i \in after : \A j \in after : i <= j,
      LAMBDA lineEnd :
      Slice(text, lineStart, lineEnd)))))

\* re.test(lineText) and re.exec(lineText) of a regular expression without
\* the g flag
test(re, str) == ~exec(re, str, 0).null

Pipeline == Str(<<"p","i","p","e","l","i","n","e">>)

When == Str(<<"w","h","e","n">>)

Executing == Str(<<"e","x","e","c","u","t","i","n","g">>)

Variable == Str(<<"v","a","r","i","a","b","l","e">>)

Mock == Str(<<"m","o","c","k">>)

WithOrAndGroup == Group(1, Alt(<<Str(<<"w","i","t","h">>), Str(<<"a","n","d">>)>>))   \* (with|and)

\* \\. in a regular expression literal: a backslash and then any character
\* but a line terminator
BackslashAndAny == Cat(<<Str(<<"\\">>), NotChars({"\n", "\r"})>>)

pipelineStepLine ==       \* /^\s*\|>\s*pipeline\s*:/
  Cat(<<Bol, Star(Whitespace), Str(<<"|",">">>), Star(Whitespace), Pipeline,
        Star(Whitespace), Str(<<":">>)>>)

whenPipelineLine ==       \* /^\s*when\s+executing\s+pipeline\s+/
  Cat(<<Bol, Star(Whitespace), When, Plus(Whitespace), Executing, Plus(Whitespace),
        Pipeline, Plus(Whitespace)>>)

mockPipelineLine ==       \* /^\s*(with|and)\s+mock\s+pipeline\s+/
  Cat(<<Bol, Star(Whitespace), WithOrAndGroup, Plus(Whitespace), Mock, Plus(Whitespace),
        Pipeline, Plus(Whitespace)>>)

pipelineDeclLine ==       \* /^\s*pipeline\s+[A-Za-z_][\w-]*\s*=/
  Cat(<<Bol, Star(Whitespace), Pipeline, Plus(Whitespace), Identifier,
        Star(Whitespace), Str(<<"=">>)>>)

isPipelineContext(lineText) ==
  \/ test(pipelineStepLine, lineText)
  \/ test(whenPipelineLine, lineText)
  \/ test(mockPipelineLine, lineText)
  \/ test(pipelineDeclLine, lineText)

\* text.slice(r.start, r.end).trimEnd()
RECURSIVE trimEnd(_)
trimEnd(str) ==
  IF Len(str) > 0 /\ str[Len(str)] \in SpaceChars THEN trimEnd(SubSeq(str, 1, Len(str) - 1))
  ELSE str

\* the snippet of formatVariableHover / formatPipelineHover for a range
hoverSnippet(text, r) ==
  Let(trimEnd(Slice(text, r.start, r.end)), LAMBDA snippet :
      createMarkdownCodeBlock(<<"w","e","b","p","i","p","e">>,
        IF Len(snippet) > 2400 THEN Slice(snippet, 0, 2400) \o <<"\n", "...">> ELSE snippet))

formatVariableHover(text, varType, varName) ==
  Let(getVariableRanges(text).ranges, LAMBDA ranges :
  Let(varType \o <<":",":">> \o varName, LAMBDA key :
      IF ~MapHas(ranges, key) THEN [null |-> TRUE]
      ELSE [null |-> FALSE, value |-> hoverSnippet(text, MapGet(ranges, key))]))

formatPipelineHover(text, pipelineName) ==
  Let(getPipelineRanges(text).ranges, LAMBDA ranges :
      IF ~MapHas(ranges, pipelineName) THEN [null |-> TRUE]
      ELSE [null |-> FALSE, value |-> hoverSnippet(text, MapGet(ranges, pipelineName))])

variableDeclLine ==       \* /^\s*([A-Za-z_][\w-]*)\s+([A-Za-z_][\w-]*)\s*=\s*`/
  Cat(<<Bol, Star(Whitespace), Group(1, Identifier), Plus(Whitespace), Group(2, Identifier),
        Star(Whitespace), Str(<<"=">>), Star(Whitespace), Str(<<BT>>)>>)

stepLine ==               \* /^\s*\|>\s*([A-Za-z_][\w-]*)\s*:/
  Cat(<<Bol, Star(Whitespace), Str(<<"|",">">>), Star(Whitespace), Group(1, Identifier),
        Star(Whitespace), Str(<<":">>)>>)

whenVariableLine ==       \* /^\s*when\s+executing\s+variable\s+([A-Za-z_][\w-]*)\s+/
  Cat(<<Bol, Star(Whitespace), When, Plus(Whitespace), Executing, Plus(Whitespace),
        Variable, Plus(Whitespace), Group(1, Identifier), Plus(Whitespace)>>)

mockVariableLine ==       \* /^\s*(with|and)\s+mock\s+([A-Za-z_][\w-]*)\\./
  Cat(<<Bol, Star(Whitespace), WithOrAndGroup, Plus(Whitespace), Mock, Plus(Whitespace),
        Group(2, Identifier), BackslashAndAny>>)

\* one of the four blocks of getVariableHover: the regular expression, the
\* group of the type, and whether a step of type pipeline is left out
hoverOfLine(re, typeGroup, notPipeline, lineText, text, word) ==
  Let(exec(re, lineText, 0), LAMBDA m :
      IF m.null THEN [null |-> TRUE]
      ELSE IF notPipeline /\ GroupText(lineText, m, typeGroup) = <<"p","i","p","e","l","i","n","e">>
      THEN [null |-> TRUE]
      ELSE formatVariableHover(text, GroupText(lineText, m, typeGroup), word))

getVariableHover(lineText, text, word) ==
  Let(hoverOfLine(variableDeclLine, 1, FALSE, lineText, text, word), LAMBDA h1 :
  Let(hoverOfLine(stepLine, 1, TRUE, lineText, text, word), LAMBDA h2 :
  Let(hoverOfLine(whenVariableLine, 1, FALSE, lineText, text, word), LAMBDA h3 :
  Let(hoverOfLine(mockVariableLine, 2, FALSE, lineText, text, word), LAMBDA h4 :
      IF ~h1.null THEN h1 ELSE IF ~h2.null THEN h2 ELSE IF ~h3.null THEN h3 ELSE h4))))

\* the body of the loops of getHandlebarsHover for the uses that remain
RECURSIVE handlebarsHoverAmong(_, _, _, _)
handlebarsHoverAmong(text, hb, offset, uses) ==
  IF Len(uses) = 0 THEN [null |-> TRUE]
  ELSE Let(Head(uses).name, LAMBDA name :
       Let(Head(uses).use, LAMBDA u :
       Let(firstContentAt(hb, offset), LAMBDA content :
       Let(IF Len(content) = 0 THEN [null |-> TRUE]
           ELSE IF MapHas(content[1].inlineBlockByName, name)
           THEN [null |-> FALSE, defRange |-> MapGet(content[1].inlineBlockByName, name),
                 hoverLang |-> <<"h","a","n","d","l","e","b","a","r","s">>]
           ELSE IF MapHas(content[1].inlineByName, name)
           THEN [null |-> FALSE, defRange |-> MapGet(content[1].inlineByName, name),
                 hoverLang |-> <<"w","e","b","p","i","p","e">>]
           ELSE [null |-> TRUE], LAMBDA local :
       Let(getVariableRanges(text).ranges, LAMBDA varRanges :
       Let(<<"h","a","n","d","l","e","b","a","r","s",":",":">> \o name, LAMBDA key :
       Let(IF ~local.null THEN local
           ELSE IF MapHas(hb.declByName, name)
           THEN [null |-> FALSE,
                 defRange |-> IF MapHas(varRanges, key)
                              THEN [start |-> MapGet(varRanges, key).start,
                                    end |-> MapGet(varRanges, key).end]
                              ELSE [start |-> MapGet(hb.declByName, name).nameStart,
                                    end |-> MapGet(hb.declByName, name).nameEnd],
                 hoverLang |-> <<"w","e","b","p","i","p","e">>]
           ELSE [null |-> TRUE], LAMBDA def :
           IF offset >= u.start /\ offset <= u.end /\ ~def.null
           THEN [null |-> FALSE,
                 value |-> createMarkdownCodeBlock(def.hoverLang,
                             Slice(text, def.defRange.start, def.defRange.end))]
           ELSE handlebarsHoverAmong(text, hb, offset, Tail(uses)))))))))

getHandlebarsHover(text, offset, word) ==
  Let(collectHandlebarsSymbols(text), LAMBDA hb :
      IF ~\E i \in 1..Len(hb.contentRanges) : Within(offset, hb.contentRanges[i])
      THEN [null |-> TRUE]
      ELSE handlebarsHoverAmong(text, hb, offset, usesInOrder(hb.usagesByName)))

\* onHover for the document text and the offset doc.offsetAt(params.position)
onHover(text, offset) ==
  Let(getWordAt(text, offset), LAMBDA wordInfo :
  Let(lineTextAt(text, offset), LAMBDA lineText :
      IF wordInfo.null THEN [null |-> TRUE]
      ELSE Let(IF isPipelineContext(lineText) THEN formatPipelineHover(text, wordInfo.word)
               ELSE [null |-> TRUE], LAMBDA pipelineHover :
           Let(getVariableHover(lineText, text, wordInfo.word), LAMBDA variableHover :
               IF ~pipelineHover.null THEN pipelineHover
               ELSE IF ~variableHover.null THEN variableHover
               ELSE getHandlebarsHover(text, offset, wordInfo.word)))))

\* Location.create(doc.uri, { start: doc.positionAt(a), end: doc.positionAt(b) })
Location(text, a, b) ==
  [null |-> FALSE, range |-> [start |-> positionAt(text, a), end |-> positionAt(text, b)]]

stepVarLine ==   \* /^\s*\|>\s*([A-Za-z_][\w-]*)\s*:\s*([A-Za-z_][\w-]*)?/
  Cat(<<Bol, Star(Whitespace), Str(<<"|",">">>), Star(Whitespace), Group(1, Identifier),
        Star(Whitespace), Str(<<":">>), Star(Whitespace), Opt(Group(2, Identifier))>>)

whenVar ==       \* /^\s*when\s+executing\s+variable\s+([A-Za-z_][\w-]*)\s+([A-Za-z_][\w-]*)/
  Cat(<<Bol, Star(Whitespace), When, Plus(Whitespace), Executing, Plus(Whitespace),
        Variable, Plus(Whitespace), Group(1, Identifier), Plus(Whitespace), Group(2, Identifier)>>)

mockVar ==       \* /^\s*(with|and)\s+mock\s+([A-Za-z_][\w-]*)\\.([A-Za-z_][\w-]*)/
  Cat(<<Bol, Star(Whitespace), WithOrAndGroup, Plus(Whitespace), Mock, Plus(Whitespace),
        Group(2, Identifier), BackslashAndAny, Group(3, Identifier)>>)

\* one of the three blocks of getVariableDefinition
definitionOfLine(re, typeGroup, notPipeline, lineText, text, word, variablePositions) ==
  Let(exec(re, lineText, 0), LAMBDA m :
  Let(GroupText(lineText, m, typeGroup) \o <<":",":">> \o word, LAMBDA key :
      IF m.null THEN [null |-> TRUE]
      ELSE IF notPipeline /\ GroupText(lineText, m, typeGroup) = <<"p","i","p","e","l","i","n","e">>
      THEN [null |-> TRUE]
      ELSE IF ~MapHas(variablePositions, key) THEN [null |-> TRUE]
      ELSE Location(text, MapGet(variablePositions, key).start,
                    MapGet(variablePositions, key).start + MapGet(variablePositions, key).length)))

getVariableDefinition(lineText, word, variablePositions, text) ==
  Let(definitionOfLine(stepVarLine, 1, TRUE, lineText, text, word, variablePositions), LAMBDA d1 :
  Let(definitionOfLine(whenVar, 1, FALSE, lineText, text, word, variablePositions), LAMBDA d2 :
  Let(definitionOfLine(mockVar, 2, FALSE, lineText, text, word, variablePositions), LAMBDA d3 :
      IF ~d1.null THEN d1 ELSE IF ~d2.null THEN d2 ELSE d3)))

\* the first entry of inlineDefsByContent whose range holds the offset and
\* that defines the name inline (the loop without break), or <<>>
firstInlineAt(hb, offset, name) ==
  Let({i \in 1..Len(hb.inlineDefsByContent) :
         /\ Within(offset, hb.inlineDefsByContent[i].range)
         /\ MapHas(hb.inlineDefsByContent[i].inlineByName, name)}, LAMBDA holding :
      IF holding = {} THEN <<>>
      ELSE <<MapGet(hb.inlineDefsByContent[CHOOSE i \in holding : \A j \in holding : i <= j]
                      .inlineByName, name)>>)

\* the body of the loops of getHandlebarsDefinition for the uses that remain
RECURSIVE handlebarsDefinitionAmong(_, _, _, _)
handlebarsDefinitionAmong(text, hb, offset, uses) ==
  IF Len(uses) = 0 THEN [null |-> TRUE]
  ELSE Let(Head(uses).name, LAMBDA name :
       Let(Head(uses).use, LAMBDA u :
       Let(firstInlineAt(hb, offset, name), LAMBDA local :
           IF offset >= u.start /\ offset <= u.end /\ Len(local) > 0
           THEN Location(text, local[1].start, local[1].end)
           ELSE IF offset >= u.start /\ offset <= u.end /\ MapHas(hb.declByName, name)
           THEN Location(text, MapGet(hb.declByName, name).nameStart,
                         MapGet(hb.declByName, name).nameEnd)
           ELSE handlebarsDefinitionAmong(text, hb, offset, Tail(uses)))))

getHandlebarsDefinition(hb, offset, text) ==
  IF ~\E i \in 1..Len(hb.contentRanges) : Within(offset, hb.contentRanges[i])
  THEN [null |-> TRUE]
  ELSE handlebarsDefinitionAmong(text, hb, offset, usesInOrder(hb.usagesByName))

\* onDefinition for the document text and the offset doc.offsetAt(params.position)
onDefinition(text, offset) ==
  Let(collectDeclarationPositions(text), LAMBDA positions :
  Let(collectHandlebarsSymbols(text), LAMBDA hb :
  Let(getWordAt(text, offset), LAMBDA wordInfo :
  Let(lineTextAt(text, offset), LAMBDA lineText :
      IF wordInfo.null THEN [null |-> TRUE]
      ELSE Let(IF (test(pipelineStepLine, lineText) \/ test(whenPipelineLine, lineText)
                     \/ test(mockPipelineLine, lineText))
                    /\ MapHas(positions.pipelinePositions, wordInfo.word)
               THEN Location(text, MapGet(positions.pipelinePositions, wordInfo.word).start,
                             MapGet(positions.pipelinePositions, wordInfo.word).start
                               + MapGet(positions.pipelinePositions, wordInfo.word).length)
               ELSE [null |-> TRUE], LAMBDA pipelineDefinition :
           Let(getVariableDefinition(lineText, wordInfo.word, positions.variablePositions, text),
               LAMBDA variableDefinition :
               IF ~pipelineDefinition.null THEN pipelineDefinition
               ELSE IF ~variableDefinition.null THEN variableDefinition
               ELSE getHandlebarsDefinition(hb, offset, text)))))))

\* ---- onReferences ----

\* getVariableKey(lineText, word): its four regular expressions are those of
\* getVariableHover (the declaration) and of getVariableDefinition
getVariableKey(lineText, word) ==
  Let(exec(variableDeclLine, lineText, 0), LAMBDA decl :
  Let(exec(stepVarLine, lineText, 0), LAMBDA step :
  Let(exec(whenVar, lineText, 0), LAMBDA bdd :
  Let(exec(mockVar, lineText, 0), LAMBDA mock :
      IF ~decl.null /\ word = GroupText(lineText, decl, 2)
      THEN [null |-> FALSE,
            key |-> GroupText(lineText, decl, 1) \o <<":",":">> \o GroupText(lineText, decl, 2)]
      ELSE IF ~step.null /\ GroupText(lineText, step, 1) # <<"p","i","p","e","l","i","n","e">>
      THEN [null |-> FALSE, key |-> GroupText(lineText, step, 1) \o <<":",":">> \o word]
      ELSE IF ~bdd.null
      THEN [null |-> FALSE, key |-> GroupText(lineText, bdd, 1) \o <<":",":">> \o word]
      ELSE IF ~mock.null
      THEN [null |-> FALSE, key |-> GroupText(lineText, mock, 2) \o <<":",":">> \o word]
      ELSE [null |-> TRUE]))))

\* return results.length ? results : null
resultsOrNull(results) ==
  IF Len(results) > 0 THEN [null |-> FALSE, locations |-> results] ELSE [null |-> TRUE]

\* addDeclAndRefsForPipeline / addDeclAndRefsForVariable: the results after the
\* call, for the Map of the declarations and the Map of the references
addDeclAndRefs(text, positions, refs, key, includeDecl) ==
  Let(IF MapHas(refs, key) THEN MapGet(refs, key) ELSE <<>>, LAMBDA list :
      (IF includeDecl /\ MapHas(positions, key)
       THEN <<Location(text, MapGet(positions, key).start,
                       MapGet(positions, key).start + MapGet(positions, key).length)>>
       ELSE <<>>)
      \o [i \in 1..Len(list) |->
            Location(text, list[i].start, list[i].start + list[i].length)])

\* getHandlebarsReferences: the first use, in the order of the two loops, that
\* holds the offset decides the name; the results are the global declaration
\* of the name, when asked for and present, and all the uses of the name
getHandlebarsReferences(hb, offset, text, includeDecl) ==
  Let(usesInOrder(hb.usagesByName), LAMBDA uses :
  Let({i \in 1..Len(uses) : Within(offset, uses[i].use)}, LAMBDA holding :
      IF holding = {} THEN [null |-> TRUE]
      ELSE Let(uses[CHOOSE i \in holding : \A j \in holding : i <= j].name, LAMBDA name :
           Let(MapGet(hb.usagesByName, name), LAMBDA list :
               resultsOrNull(
                 (IF includeDecl /\ MapHas(hb.declByName, name)
                  THEN <<Location(text, MapGet(hb.declByName, name).nameStart,
                                  MapGet(hb.declByName, name).nameEnd)>>
                  ELSE <<>>)
                 \o [i \in 1..Len(list) |-> Location(text, list[i].start, list[i].end)])))))

resolveReferences(lineText, word, declarations, references, hb, offset, text, includeDecl) ==
  Let(getVariableKey(lineText, word), LAMBDA variableKey :
      IF isPipelineContext(lineText)
      THEN resultsOrNull(addDeclAndRefs(text, declarations.pipelinePositions,
                                        references.pipelineRefs, word, includeDecl))
      ELSE IF ~variableKey.null
      THEN resultsOrNull(addDeclAndRefs(text, declarations.variablePositions,
                                        references.variableRefs, variableKey.key, includeDecl))
      ELSE IF \E i \in 1..Len(hb.contentRanges) : Within(offset, hb.contentRanges[i])
      THEN getHandlebarsReferences(hb, offset, text, includeDecl)
      ELSE [null |-> TRUE])

\* onReferences for the document text, the offset doc.offsetAt(params.position)
\* and params.context.includeDeclaration
onReferences(text, offset, includeDecl) ==
  Let(getWordAt(text, offset), LAMBDA wordInfo :
      IF wordInfo.null THEN [null |-> TRUE]
      ELSE resolveReferences(lineTextAt(text, offset), wordInfo.word,
                             collectDeclarationPositions(text), collectReferencePositions(text),
                             collectHandlebarsSymbols(text), offset, text, includeDecl))

\* ========================================================================
\* DocumentValidator (part_003): validateDocument
\* ========================================================================

\* ---- validateTrailingNewline ----

validateTrailingNewline(text, diagnostics) ==
  IF Len(text) > 0 /\ text[Len(text)] # "\n"
  THEN Append(diagnostics,
              [severity |-> "Warning",
               range |-> [start |-> positionAt(text, Max(0, Len(text) - 1)),
                          end |-> positionAt(text, Len(text))],
               message |-> <<"File does not end with a newline">>,
               source |-> "webpipe-lsp"])
  ELSE diagnostics

\* ---- the reference validators ----

\* REGEX_PATTERNS.STEP_REF, PIPE_REF and SINGLE_IDENTIFIER of constants.ts
STEP_REF ==
  Cat(<<LineHead, Star(Whitespace), Str(<<"|",">">>), Star(Whitespace), Group(2, Identifier),
        Star(Whitespace), Str(<<":">>), Star(Whitespace),
        Group(3, Cat(<<NotChars(SpaceChars \cup {BT, "\""}), Lazy(Dot)>>)),
        Ahead(Alt(<<Str(<<"\n">>), Eot>>))>>)

PIPE_REF ==
  Cat(<<LineHead, Star(Whitespace), Str(<<"|",">">>), Star(Whitespace),
        Str(<<"p","i","p","e","l","i","n","e",":">>), Star(Whitespace), Group(2, Identifier)>>)

SINGLE_IDENTIFIER == Cat(<<Bol, Group(1, Identifier), Eot>>)

VALID_HTTP_METHODS ==
  { <<"G","E","T">>, <<"P","O","S","T">>, <<"P","U","T">>, <<"P","A","T","C","H">>,
    <<"D","E","L","E","T","E">> }

\* String.prototype.trim
RECURSIVE trimStart(_)
trimStart(str) ==
  IF Len(str) > 0 /\ str[1] \in SpaceChars THEN trimStart(Tail(str)) ELSE str

trim(str) == trimStart(trimEnd(str))

\* const declared = variablesByType.get(t); !declared || !declared.has(name)
undeclaredVariable(variablesByType, varType, varName) ==
  ~MapHas(variablesByType, varType) \/ ~SetHas(MapGet(variablesByType, varType), varName)

\* the loop of validateStepReferences over the matches of STEP_REF
RECURSIVE unknownStepVariables(_, _, _, _)
unknownStepVariables(diagnostics, text, variablesByType, found) ==
  IF Len(found) = 0 THEN diagnostics
  ELSE Let(Head(found), LAMBDA m :
       Let(GroupText(text, m, 2), LAMBDA stepName :
       Let(exec(SINGLE_IDENTIFIER, trim(GroupText(text, m, 3)), 0), LAMBDA identMatch :
           IF stepName = <<"p","i","p","e","l","i","n","e">> \/ identMatch.null
           THEN unknownStepVariables(diagnostics, text, variablesByType, Tail(found))
           ELSE Let(GroupText(trim(GroupText(text, m, 3)), identMatch, 1), LAMBDA id :
                Let(m.index + lastIndexOf(MatchText(text, m), id), LAMBDA idStart :
                    unknownStepVariables(
                      IF undeclaredVariable(variablesByType, stepName, id)
                      THEN push(diagnostics, text, "Error", idStart, idStart + Len(id),
                                <<"Unknown ", stepName, " variable: ", id>>)
                      ELSE diagnostics,
                      text, variablesByType, Tail(found)))))))

validateStepReferences(text, variablesByType, diagnostics) ==
  unknownStepVariables(diagnostics, text, variablesByType, execAll(STEP_REF, text, 0))

\* a loop over the matches of a regular expression whose group 2 is the name
\* of a pipeline: an error with the given message at the last occurrence of
\* the name in the match when the name is not declared
RECURSIVE unknownPipelines(_, _, _, _, _)
unknownPipelines(diagnostics, text, pipelineNames, found, message) ==
  IF Len(found) = 0 THEN diagnostics
  ELSE Let(Head(found), LAMBDA m :
       Let(GroupText(text, m, 2), LAMBDA name :
       Let(m.index + lastIndexOf(MatchText(text, m), name), LAMBDA nameStart :
           unknownPipelines(
             IF ~SetHas(pipelineNames, name)
             THEN push(diagnostics, text, "Error", nameStart, nameStart + Len(name),
                       <<message, name>>)
             ELSE diagnostics,
             text, pipelineNames, Tail(found), message))))

\* a loop over the matches of a regular expression whose groups 2 and 3 are
\* the type and the name of a variable
RECURSIVE unknownVariables(_, _, _, _, _)
unknownVariables(diagnostics, text, variablesByType, found, tail) ==
  IF Len(found) = 0 THEN diagnostics
  ELSE Let(Head(found), LAMBDA m :
       Let(GroupText(text, m, 2), LAMBDA varType :
       Let(GroupText(text, m, 3), LAMBDA varName :
       Let(m.index + lastIndexOf(MatchText(text, m), varName), LAMBDA nameStart :
           unknownVariables(
             IF undeclaredVariable(variablesByType, varType, varName)
             THEN push(diagnostics, text, "Error", nameStart, nameStart + Len(varName),
                       <<"Unknown ", varType, tail, varName>>)
             ELSE diagnostics,
             text, variablesByType, Tail(found), tail)))))

validatePipelineReferences(text, pipelineNames, diagnostics) ==
  unknownPipelines(diagnostics, text, pipelineNames, execAll(PIPE_REF, text, 0),
                   "Unknown pipeline: ")

whenExecPipelineRe ==  \* /(^|\n)\s*when\s+executing\s+pipeline\s+([A-Za-z_][\w-]*)/g
  Cat(<<LineHead, Star(Whitespace), When, Plus(Whitespace), Executing, Plus(Whitespace),
        Pipeline, Plus(Whitespace), Group(2, Identifier)>>)

whenExecVarRe ==  \* /(^|\n)\s*when\s+executing\s+variable\s+([A-Za-z_][\w-]*)\s+([A-Za-z_][\w-]*)/g
  Cat(<<LineHead, Star(Whitespace), When, Plus(Whitespace), Executing, Plus(Whitespace),
        Variable, Plus(Whitespace), Group(2, Identifier), Plus(Whitespace),
        Group(3, Identifier)>>)

whenCallingRe ==  \* /(^|\n)\s*when\s+calling\s+([A-Z]+)\s+([^\s\n]+)/g
  Cat(<<LineHead, Star(Whitespace), When, Plus(Whitespace),
        Str(<<"c","a","l","l","i","n","g">>), Plus(Whitespace), Group(2, Plus(Chars(Upper))),
        Plus(Whitespace), Group(3, Plus(NotChars(SpaceChars)))>>)

\* the loop of validateBDDReferences over the matches of whenCallingRe
RECURSIVE unknownMethods(_, _, _)
unknownMethods(diagnostics, text, found) ==
  IF Len(found) = 0 THEN diagnostics
  ELSE Let(Head(found), LAMBDA m :
       Let(GroupText(text, m, 2), LAMBDA method :
       Let(m.index + indexOf(MatchText(text, m), method), LAMBDA methodStart :
           unknownMethods(
             IF method \notin VALID_HTTP_METHODS
             THEN push(diagnostics, text, "Error", methodStart, methodStart + Len(method),
                       <<"Unknown HTTP method: ", method>>)
             ELSE diagnostics,
             text, Tail(found)))))

validateBDDReferences(text, variablesByType, pipelineNames, diagnostics) ==
  unknownMethods(
    unknownVariables(
      unknownPipelines(diagnostics, text, pipelineNames,
                       execAll(whenExecPipelineRe, text, 0), "Unknown pipeline: "),
      text, variablesByType, execAll(whenExecVarRe, text, 0), " variable: "),
    text, execAll(whenCallingRe, text, 0))

mockPipelineRe ==  \* /(^|\n)\s*(?:with|and)\s+mock\s+pipeline\s+([A-Za-z_][\w-]*)\s+returning\s+`/g
  Cat(<<LineHead, Star(Whitespace), WithOrAnd, Plus(Whitespace), Mock, Plus(Whitespace),
        Pipeline, Plus(Whitespace), Group(2, Identifier), Returning>>)

mockVariableRe ==  \* /(^|\n)\s*(?:with|and)\s+mock\s+([A-Za-z_][\w-]*)\.([A-Za-z_][\w-]*)\s+returning\s+`/g
  Cat(<<LineHead, Star(Whitespace), WithOrAnd, Plus(Whitespace), Mock, Plus(Whitespace),
        Group(2, Identifier), Str(<<".">>), Group(3, Identifier), Returning>>)

validateMockReferences(text, variablesByType, pipelineNames, diagnostics) ==
  unknownVariables(
    unknownPipelines(diagnostics, text, pipelineNames,
                     execAll(mockPipelineRe, text, 0), "Unknown pipeline in mock: "),
    text, variablesByType, execAll(mockVariableRe, text, 0), " variable in mock: ")

\* ---- validateReferences and validateDocument ----

\* the loop that pushes the diagnostics of the parser
RECURSIVE pushParseDiagnostics(_, _, _)
pushParseDiagnostics(diagnostics, text, parseDiagnostics) ==
  IF Len(parseDiagnostics) = 0 THEN diagnostics
  ELSE Let(Head(parseDiagnostics), LAMBDA d :
           pushParseDiagnostics(
             push(diagnostics, text,
                  IF d.severity = "error" THEN "Error"
                  ELSE IF d.severity = "warning" THEN "Warning" ELSE "Information",
                  d.start, d.end, d.message),
             text, Tail(parseDiagnostics)))

\* The statements of the try block of validateReferences that push the
\* diagnostics of the parser, of the declarations, of the references to
\* variables and pipelines and of the Handlebars partials, numbered in the
\* order of the source: 1 the parse, 2 collectDeclarations, 3 to 6 the four
\* validators of references, 7 validateHandlebarsPartialReferences.  (The
\* validators of routes, JSON blocks, middleware, auth flows, result blocks,
\* assertions and step names, which run between these statements and push
\* diagnostics of their own kinds, are outside this model.)
FaultStages == 1..7

\* validateReferences(text, doc, diagnostics): the array diagnostics after the
\* call, when the statement of stage fault raises an exception before it
\* pushes anything (fault = 0: no exception).  The catch block is empty, so
\* what the earlier statements pushed stays in the array.
validateReferences(text, diagnostics, fault) ==
  Let(IF fault = 1 THEN [exc |-> "Error"] ELSE parseProgramWithDiagnostics(text), LAMBDA r :
      IF fault = 1 \/ r.exc # "none" THEN diagnostics
      ELSE Let(pushParseDiagnostics(diagnostics, text, r.diagnostics), LAMBDA d1 :
           IF fault = 2 THEN d1
           ELSE Let(collectDeclarations(text, d1, r.program), LAMBDA decl :
                IF fault = 3 THEN decl.diagnostics
                ELSE Let(validateStepReferences(text, decl.variablesByType, decl.diagnostics),
                         LAMBDA d3 :
                     IF fault = 4 THEN d3
                     ELSE Let(validatePipelineReferences(text, decl.pipelineNames, d3),
                              LAMBDA d4 :
                          IF fault = 5 THEN d4
                          ELSE Let(validateBDDReferences(text, decl.variablesByType,
                                                         decl.pipelineNames, d4), LAMBDA d5 :
                               IF fault = 6 THEN d5
                               ELSE Let(validateMockReferences(text, decl.variablesByType,
                                                               decl.pipelineNames, d5),
                                        LAMBDA d6 :
                                    IF fault = 7 THEN d6
                                    ELSE validateHandlebarsPartialReferences(text, d6))))))))

\* validateDocument(doc): what connection.sendDiagnostics receives
validateDocument(text, fault) ==
  [uri |-> "doc",
   diagnostics |-> validateReferences(text, validateTrailingNewline(text, <<>>), fault)]

\* ========================================================================
\* Requests on a document
\* ========================================================================

\* the lines a document is made of in the requests for declarations and
\* references
SymbolFragments == {
  <<"p","i","p","e","l","i","n","e"," ","p"," ","="," ","|",">"," ","j","q",":"," ",BT,"x",BT,"\n">>,
  <<"p","i","p","e","l","i","n","e"," ","f","o","o"," ","="," ","|",">"," ","j","q",":"," ",BT,"{","}",BT,"\n">>,
  <<"G","E","T"," ","/","x"," ","|",">"," ","p","i","p","e","l","i","n","e",":"," ","f","o","o","\n">>,
  <<"G","E","T"," ","/","x","\n"," ","|",">"," ","p","g",":"," ","q","\n"," ","|",">"," ","p","i","p","e","l","i","n","e",":"," ","f","o","o","\n">>,
  <<"p","g"," ","q"," ","="," ",BT,"a",BT,"\n">>,
  <<"p","g"," ","q"," ","="," ",BT,"q",BT,"\n">>,
  <<"G","E","T"," ","/","y","\n"," ","|",">"," ","j","q",":"," ","f","o","o"," ","b","a","r","\n">>,
  <<"d","e","s","c","r","i","b","e"," ","\"","d","\"","\n",
    " ","w","i","t","h"," ","m","o","c","k"," ","p","g",".","q"," ","r","e","t","u","r","n","i","n","g"," ",BT,"r",BT,"\n",
    " ","i","t"," ","\"","t","\"","\n",
    " ","w","h","e","n"," ","e","x","e","c","u","t","i","n","g"," ","p","i","p","e","l","i","n","e"," ","f","o","o","\n",
    " ","a","n","d"," ","m","o","c","k"," ","p","i","p","e","l","i","n","e"," ","f","o","o"," ","r","e","t","u","r","n","i","n","g"," ",BT,"r",BT,"\n",
    " ","i","t"," ","\"","u","\"","\n",
    " ","w","h","e","n"," ","e","x","e","c","u","t","i","n","g"," ","v","a","r","i","a","b","l","e"," ","p","g"," ","q","\n">> }

SymbolTexts == { Concat(fs) : fs \in UNION { [1..n -> SymbolFragments] : n \in 0..MaxFrags } }

\* the lines a document is made of in the requests on Handlebars partials
PartialFragments == {
  <<"h","a","n","d","l","e","b","a","r","s"," ","t"," ","="," ",BT,
    "{","{","#","*","i","n","l","i","n","e"," ","\"","x","\"","}","}","A","{","{","/","i","n","l","i","n","e","}","}",
    "{","{",">"," ","x","}","}",BT,"\n">>,
  <<"h","a","n","d","l","e","b","a","r","s"," ","x"," ","="," ",BT,"B",BT,"\n">>,
  <<"G","E","T"," ","/","h","\n"," ","|",">"," ","h","a","n","d","l","e","b","a","r","s",":"," ",BT,
    "{","{","#","*","i","n","l","i","n","e"," ","\"","x","\"","}","}","A","{","{","/","i","n","l","i","n","e","}","}",
    "{","{",">"," ","x","}","}",BT,"\n">>,
  <<"h","a","n","d","l","e","b","a","r","s"," ","u"," ","="," ",BT,"\n",
    "{","{","#","*","i","n","l","i","n","e"," ","\"","x","\"","}","}","A","{","{","/","i","n","l","i","n","e","}","}","\n",
    "{","{",">"," ","x","}","}","\n",BT,"\n">>,
  <<"G","E","T"," ","/","k","\n"," ","|",">"," ","h","a","n","d","l","e","b","a","r","s",":"," ",BT,"\n",
    "{","{",">"," ","x","}","}","\n",BT,"\n">> }

PartialTexts == { Concat(fs) : fs \in UNION { [1..n -> PartialFragments] : n \in 0..MaxFrags } }

\* the editor opens a document
SymbolInit ==
  /\ document \in SymbolTexts
  /\ answer = NoAnswer
  /\ cache = <<>>
  /\ clock = 0
  /\ parsed = FALSE
  /\ lastCall = NoCall
  /\ parser = NewParser(<<>>)
  /\ program = EmptyProgram
  /\ pc = "idle"

\* Each request is served once, on the document as it was opened.

BuildSymbolTable ==
  /\ answer = NoAnswer
  /\ answer' = [op |-> "buildSymbolTable",
                table |-> buildSymbolTable(parseProgram(document).program, document)]
  /\ UNCHANGED <<document, cacheVars, parserVars>>

CollectDeclarationPositions ==
  /\ answer = NoAnswer
  /\ answer' = [op |-> "collectDeclarationPositions",
                positions |-> collectDeclarationPositions(document)]
  /\ UNCHANGED <<document, cacheVars, parserVars>>

CollectReferencePositions ==
  /\ answer = NoAnswer
  /\ answer' = [op |-> "collectReferencePositions",
                refs |-> collectReferencePositions(document)]
  /\ UNCHANGED <<document, cacheVars, parserVars>>

\* the call of collectDeclarations in validateReferences, with the Program of
\* parseProgramWithDiagnostics and no diagnostics pushed before
CollectDeclarations ==
  /\ answer = NoAnswer
  /\ answer' = [op |-> "collectDeclarations",
                declared |-> collectDeclarations(document, <<>>,
                               parseProgramWithDiagnostics(document).program)]
  /\ UNCHANGED <<document, cacheVars, parserVars>>

\* validateDocument on the document; fault is the stage of validateReferences
\* that raises an exception, 0 when none does
ValidateDocument(fault) ==
  /\ answer = NoAnswer
  /\ answer' = [op |-> "validateDocument", fault |-> fault,
                published |-> validateDocument(document, fault)]
  /\ UNCHANGED <<document, cacheVars, parserVars>>

SymbolNext ==
  \/ BuildSymbolTable
  \/ CollectDeclarationPositions
  \/ CollectReferencePositions
  \/ CollectDeclarations
  \/ \E fault \in {0} \cup FaultStages : ValidateDocument(fault)

SymbolSpec == SymbolInit /\ [][SymbolNext]_vars

PartialInit ==
  /\ document \in PartialTexts
  /\ answer = NoAnswer
  /\ cache = <<>>
  /\ clock = 0
  /\ parsed = FALSE
  /\ lastCall = NoCall
  /\ parser = NewParser(<<>>)
  /\ program = EmptyProgram
  /\ pc = "idle"

OnHover(offset) ==
  /\ answer = NoAnswer
  /\ answer' = [op |-> "onHover", offset |-> offset, hover |-> onHover(document, offset)]
  /\ UNCHANGED <<document, cacheVars, parserVars>>

OnDefinition(offset) ==
  /\ answer = NoAnswer
  /\ answer' = [op |-> "onDefinition", offset |-> offset,
                location |-> onDefinition(document, offset)]
  /\ UNCHANGED <<document, cacheVars, parserVars>>

\* the call of validateHandlebarsPartialReferences in validateReferences, with
\* no diagnostics pushed before
ValidateHandlebarsPartialReferences ==
  /\ answer = NoAnswer
  /\ answer' = [op |-> "validateHandlebarsPartialReferences",
                diagnostics |-> validateHandlebarsPartialReferences(document, <<>>)]
  /\ UNCHANGED <<document, cacheVars, parserVars>>

PartialNext ==
  \/ \E offset \in 0..Len(document) : OnHover(offset)
  \/ \E offset \in 0..Len(document) : OnDefinition(offset)
  \/ ValidateHandlebarsPartialReferences

PartialSpec == PartialInit /\ [][PartialNext]_vars

\* the documents of the requests for references: one of the lines of
\* SymbolFragments, or Handlebars regions whose content starts on a line of
\* its own and global partials
ReferenceFragments ==
  {f \in PartialFragments : \A i \in 1..(Len(f) - 1) : ~(f[i] = BT /\ f[i + 1] = "{")}

ReferenceTexts ==
  SymbolFragments
    \cup { Concat(fs) : fs \in UNION { [1..n -> ReferenceFragments] : n \in 0..MaxFrags } }

ReferencesInit ==
  /\ document \in ReferenceTexts
  /\ answer = NoAnswer
  /\ cache = <<>>
  /\ clock = 0
  /\ parsed = FALSE
  /\ lastCall = NoCall
  /\ parser = NewParser(<<>>)
  /\ program = EmptyProgram
  /\ pc = "idle"

OnReferences(offset, includeDecl) ==
  /\ answer = NoAnswer
  /\ answer' = [op |-> "onReferences", offset |-> offset, includeDecl |-> includeDecl,
                found |-> onReferences(document, offset, includeDecl)]
  /\ UNCHANGED <<document, cacheVars, parserVars>>

ReferencesNext ==
  \E offset \in 0..Len(document), includeDecl \in BOOLEAN : OnReferences(offset, includeDecl)

ReferencesSpec == ReferencesInit /\ [][ReferencesNext]_vars

\* ========================================================================
\* Properties of the symbol requests
\* ========================================================================

\* the name a key stands for: the pipeline name, or the part of a variable
\* key after "::"
NameOfKey(key) ==
  IF indexOf(key, <<":", ":">>) >= 0 THEN splitKey(key).varName ELSE key

\* C13: in the SymbolTable of buildSymbolTable(program, text) the text at
\* pipelinePositions[p] is p, for every declared pipeline p, and the text at
\* variablePositions[type::name] is name, for every declared variable
C13_PositionsSpellTheNames ==
  answer.op = "buildSymbolTable" =>
    /\ \A i \in 1..Len(answer.table.pipelinePositions) :
         Slice(document, answer.table.pipelinePositions[i].value.start,
               answer.table.pipelinePositions[i].value.start
                 + answer.table.pipelinePositions[i].value.length)
           = answer.table.pipelinePositions[i].key
    /\ \A i \in 1..Len(answer.table.variablePositions) :
         Slice(document, answer.table.variablePositions[i].value.start,
               answer.table.variablePositions[i].value.start
                 + answer.table.variablePositions[i].value.length)
           = NameOfKey(answer.table.variablePositions[i].key)

\* C14: collectDeclarationPositions(text) maps every declared pipeline and
\* every declared variable to the span of the name token of its declaration:
\* start is where the parser read the name, after the keyword pipeline
\* (or the variable type) and the inline spaces, and length is the name's length
C14_SpanOfTheNameToken ==
  answer.op = "collectDeclarationPositions" =>
    /\ \A i \in 1..Len(getPipelineRanges(document).ranges) :
         /\ MapHas(answer.positions.pipelinePositions,
                   getPipelineRanges(document).ranges[i].key)
         /\ MapGet(answer.positions.pipelinePositions,
                   getPipelineRanges(document).ranges[i].key)
              = [start |-> ScanWhile(document,
                                     getPipelineRanges(document).ranges[i].value.start
                                       + Len(<<"p","i","p","e","l","i","n","e">>),
                                     InlineSpaceChars, TRUE),
                 length |-> Len(getPipelineRanges(document).ranges[i].key)]
    /\ \A i \in 1..Len(getVariableRanges(document).ranges) :
         /\ MapHas(answer.positions.variablePositions,
                   getVariableRanges(document).ranges[i].key)
         /\ MapGet(answer.positions.variablePositions,
                   getVariableRanges(document).ranges[i].key)
              = [start |-> ScanWhile(document,
                                     getVariableRanges(document).ranges[i].value.start
                                       + Len(splitKey(getVariableRanges(document).ranges[i].key).varType),
                                     InlineSpaceChars, TRUE),
                 length |-> Len(splitKey(getVariableRanges(document).ranges[i].key).varName)]

\* a step |> pipeline: <name> as the parser reads it (parsePipelineRef, and
\* parseRegularStep for a step named pipeline): the arrow, inline spaces,
\* pipeline:, inline spaces and the name (group 1)
NamedPipelineStep ==
  Cat(<<Str(<<"|", ">">>), Star(Chars(InlineSpaceChars)),
        Str(<<"p","i","p","e","l","i","n","e",":">>), Star(Chars(InlineSpaceChars)),
        Group(1, Identifier)>>)

\* C15: every step |> pipeline: <name> of the text contributes exactly one
\* entry to pipelineRefs[name] of collectReferencePositions, located at the
\* name after pipeline: (so the route GET /x |> pipeline: foo gives
\* pipelineRefs["foo"] one entry, at foo)
C15_OneEntryPerPipelineStep ==
  answer.op = "collectReferencePositions" =>
    \A i \in 0..Len(document) :
      run(document, <<NamedPipelineStep>>, i, NoGroups).ok =>
        /\ MapHas(answer.refs.pipelineRefs,
                  GroupText(document, run(document, <<NamedPipelineStep>>, i, NoGroups), 1))
        /\ Cardinality(
             {j \in 1..Len(MapGet(answer.refs.pipelineRefs,
                                  GroupText(document, run(document, <<NamedPipelineStep>>, i, NoGroups), 1))) :
                MapGet(answer.refs.pipelineRefs,
                       GroupText(document, run(document, <<NamedPipelineStep>>, i, NoGroups), 1))[j]
                  = [start |-> run(document, <<NamedPipelineStep>>, i, NoGroups).groups[1][1],
                     length |-> Len(GroupText(document,
                                    run(document, <<NamedPipelineStep>>, i, NoGroups), 1))]}) = 1

\* C16: every position {start, length} of collectReferencePositions lies
\* inside the text, and the text there is the referenced identifier: the
\* pipeline name, or the part of the variable key after "::"
C16_ReferenceSpansSpellTheIdentifier ==
  answer.op = "collectReferencePositions" =>
    \A refs \in {answer.refs.pipelineRefs, answer.refs.variableRefs} :
      \A i \in 1..Len(refs) :
        \A j \in 1..Len(refs[i].value) :
          /\ 0 <= refs[i].value[j].start
          /\ refs[i].value[j].start + refs[i].value[j].length <= Len(document)
          /\ Slice(document, refs[i].value[j].start,
                   refs[i].value[j].start + refs[i].value[j].length)
               = NameOfKey(refs[i].key)

\* a document with the six reference shapes: the pipeline foo and the
\* variable pg::q are each referenced by a step, by a when clause and by a
\* mock clause, none of them on the first line
C16_Witness ==
  /\ answer.op = "collectReferencePositions"
  /\ MapHas(answer.refs.pipelineRefs, <<"f","o","o">>)
  /\ MapHas(answer.refs.variableRefs, <<"p","g",":",":","q">>)
  /\ Len(MapGet(answer.refs.pipelineRefs, <<"f","o","o">>)) = 3
  /\ Len(MapGet(answer.refs.variableRefs, <<"p","g",":",":","q">>)) = 3
  /\ \A j \in 1..3 : MapGet(answer.refs.pipelineRefs, <<"f","o","o">>)[j].start > 0

\* C17: collectReferencePositions records a variable reference for a step
\* |> <stepType>: <config> only when the config is a single bare identifier:
\* an entry of variableRefs that follows the colon of a step is followed by
\* nothing but white space up to the end of its line
C17_StepConfigIsOneIdentifier ==
  answer.op = "collectReferencePositions" =>
    \A i \in 1..Len(answer.refs.variableRefs) :
      \A j \in 1..Len(answer.refs.variableRefs[i].value) :
        (\E k \in 1..answer.refs.variableRefs[i].value[j].start :
           /\ document[k] = ":"
           /\ \A n \in (k + 1)..answer.refs.variableRefs[i].value[j].start :
                document[n] \in SpaceChars)
        => \A n \in (answer.refs.variableRefs[i].value[j].start
                        + answer.refs.variableRefs[i].value[j].length + 1)
                     ..LineEndFrom(document, answer.refs.variableRefs[i].value[j].start) :
             document[n] \in SpaceChars

\* the ranges of the warnings with the given message among the diagnostics
WarningRanges(diagnostics, message) ==
  {diagnostics[i].range : i \in {n \in 1..Len(diagnostics) :
                                   /\ diagnostics[n].severity = "Warning"
                                   /\ diagnostics[n].message = message}}

\* the range of the name token (group k) of every declaration after the first
\* among the declarations found, which all declare the same name
LaterNameTokens(text, found, k) ==
  {[start |-> positionAt(text, found[i].groups[k][1]),
    end |-> positionAt(text, found[i].groups[k][2])] : i \in 2..Len(found)}

\* C18: a variable declared k >= 2 times (same type and name) is once in the
\* declared set of its type and gets exactly k - 1 warnings
\* 'Duplicate <type> variable: <name>', one on the name token of each
\* declaration after the first; the same holds for a pipeline declared k >= 2
\* times and the warnings 'Duplicate pipeline: <name>'
C18_DuplicatesWarnedAtTheName ==
  answer.op = "collectDeclarations" =>
    LET prog == parseProgramWithDiagnostics(document).program
        declared == answer.declared
    IN /\ \A v \in {prog.variables[i] : i \in 1..Len(prog.variables)} :
            LET k == Cardinality({i \in 1..Len(prog.variables) :
                                    /\ prog.variables[i].varType = v.varType
                                    /\ prog.variables[i].name = v.name})
                message == <<"Duplicate ", v.varType, " variable: ", v.name>>
                found == SelectSeq(execAll(VAR_DECL, document, 0),
                                   LAMBDA m : /\ GroupText(document, m, 2) = v.varType
                                              /\ GroupText(document, m, 3) = v.name)
            IN k >= 2 =>
                 /\ Cardinality({i \in 1..Len(MapGet(declared.variablesByType, v.varType)) :
                                   MapGet(declared.variablesByType, v.varType)[i] = v.name}) = 1
                 /\ Cardinality({i \in 1..Len(declared.diagnostics) :
                                   declared.diagnostics[i].message = message}) = k - 1
                 /\ WarningRanges(declared.diagnostics, message)
                      = LaterNameTokens(document, found, 3)
                 /\ Cardinality(LaterNameTokens(document, found, 3)) = k - 1
       /\ \A q \in {prog.pipelines[i] : i \in 1..Len(prog.pipelines)} :
            LET k == Cardinality({i \in 1..Len(prog.pipelines) :
                                    prog.pipelines[i].name = q.name})
                message == <<"Duplicate pipeline: ", q.name>>
                found == SelectSeq(execAll(PIPE_DECL, document, 0),
                                   LAMBDA m : GroupText(document, m, 2) = q.name)
            IN k >= 2 =>
                 /\ Cardinality({i \in 1..Len(declared.pipelineNames) :
                                   declared.pipelineNames[i] = q.name}) = 1
                 /\ Cardinality({i \in 1..Len(declared.diagnostics) :
                                   declared.diagnostics[i].message = message}) = k - 1
                 /\ WarningRanges(declared.diagnostics, message)
                      = LaterNameTokens(document, found, 2)
                 /\ Cardinality(LaterNameTokens(document, found, 2)) = k - 1

\* C19: for a usage {{> x}} at an offset inside a content region that defines
\* x inline, go-to-definition answers the name of the inline definition of
\* that region and hover answers its inline block, also when a global
\* handlebars x is declared
C19_InlineDefinitionShadowsGlobal ==
  answer.op \in {"onHover", "onDefinition"} =>
    LET hb == collectHandlebarsSymbols(document)
    IN \A i \in 1..Len(hb.usagesByName) :
         \A j \in 1..Len(hb.usagesByName[i].value) :
           \A e \in 1..Len(hb.inlineDefsByContent) :
             LET name == hb.usagesByName[i].key
                 u == hb.usagesByName[i].value[j]
                 entry == hb.inlineDefsByContent[e]
             IN (/\ answer.offset >= u.start
                 /\ answer.offset <= u.end
                 /\ Within(answer.offset, entry.range)
                 /\ MapHas(entry.inlineByName, name)
                 /\ MapHas(entry.inlineBlockByName, name))
                => /\ answer.op = "onDefinition" =>
                        answer.location
                          = Location(document, MapGet(entry.inlineByName, name).start,
                                     MapGet(entry.inlineByName, name).end)
                   /\ answer.op = "onHover" =>
                        answer.hover
                          = [null |-> FALSE,
                             value |-> createMarkdownCodeBlock(
                                         <<"h","a","n","d","l","e","b","a","r","s">>,
                                         Slice(document,
                                               MapGet(entry.inlineBlockByName, name).start,
                                               MapGet(entry.inlineBlockByName, name).end))]

\* C20: a usage {{> x}} in a content region that has no inline definition of
\* x, in a text with no global handlebars x, gets the warning
\* 'Unknown Handlebars partial: x' on its name, whatever the other regions
\* of the text define inline
C20_UnknownPartialReported ==
  answer.op = "validateHandlebarsPartialReferences" =>
    LET hb == collectHandlebarsSymbols(document)
    IN \A i \in 1..Len(hb.usagesByName) :
         \A j \in 1..Len(hb.usagesByName[i].value) :
           LET name == hb.usagesByName[i].key
               u == hb.usagesByName[i].value[j]
           IN (/\ ~MapHas(hb.declByName, name)
               /\ \A e \in 1..Len(hb.inlineDefsByContent) :
                    Within(u.start, hb.inlineDefsByContent[e].range)
                      => ~hasInline(hb.inlineDefsByContent[e], name))
              => \E n \in 1..Len(answer.diagnostics) :
                   /\ answer.diagnostics[n].severity = "Warning"
                   /\ answer.diagnostics[n].message = <<"Unknown Handlebars partial: ", name>>
                   /\ answer.diagnostics[n].range
                        = [start |-> positionAt(document, u.start),
                           end |-> positionAt(document, u.end)]

\* C21: when an exception is raised while validateReferences computes the
\* diagnostics of a document, validateDocument publishes an empty list of
\* diagnostics for the document, not what was collected before the fault.
C21_FaultPublishesNothing ==
  (answer.op = "validateDocument" /\ answer.fault \in FaultStages)
    => answer.published.diagnostics = <<>>


\* ========================================================================
\* Further properties of the DocumentCache (specification Spec)
\* ========================================================================

\* C23: when the insertion of a get leaves the cache over maxCacheSize, cleanup
\* removes every entry older than maxCacheAge and, only if the cache is still
\* over the bound, the entries of smallest timestamp until the size is the
\* bound, so that no entry that stays is strictly older than one evicted in
\* this second pass; when the insertion leaves the size within the bound,
\* nothing is evicted.
C23_CleanupByAgeThenOldest ==
  [][(lastCall'.op = "get" /\ lastCall'.cached # "current" /\ lastCall'.exc = "none")
       => LET uri == lastCall'.uri
              keys == {cache[i].key : i \in 1..Len(cache)} \cup {uri}
              tsOf(k) == IF k = uri THEN clock ELSE MapGet(cache, k).timestamp
              old == {k \in keys : clock' - tsOf(k) > maxCacheAge}
              kept == {cache'[i].key : i \in 1..Len(cache')}
              evicted == keys \ kept
          IN /\ kept \subseteq keys
             /\ Cardinality(keys) <= maxCacheSize => evicted = {}
             /\ Cardinality(keys) > maxCacheSize
                  => /\ old \subseteq evicted
                     /\ Cardinality(keys \ old) <= maxCacheSize => evicted = old
                     /\ Cardinality(keys \ old) > maxCacheSize
                          => /\ Cardinality(kept) = maxCacheSize
                             /\ \A e \in evicted \ old, k \in kept : tsOf(k) >= tsOf(e)]_vars

\* a get has evicted an entry in the second pass of cleanup (no entry can be
\* older than maxCacheAge yet) and the entries that stay differ in age
C23_Witness ==
  /\ lastCall.op = "get"
  /\ lastCall.removed = 1
  /\ clock > 0
  /\ clock <= maxCacheAge
  /\ Len(cache) = maxCacheSize
  /\ \E i, j \in 1..Len(cache) : cache[i].value.timestamp < cache[j].value.timestamp

\* C24: after a get or a getText for a uri that is cached under the
\* document's version, the timestamp of the entry is the current time.
C24_HitRefreshesTimestamp ==
  (lastCall.op \in {"get", "getText"} /\ lastCall.cached = "current")
    => /\ MapHas(cache, lastCall.uri)
       /\ MapGet(cache, lastCall.uri).timestamp = clock

\* C29: when a get has returned, the cache holds an entry for the uri under
\* the version of the document.
C29_InsertedEntrySurvivesCleanup ==
  (lastCall.op = "get" /\ lastCall.exc = "none")
    => Cached(cache, lastCall.uri, lastCall.version)

\* ========================================================================
\* Further properties of the parser (specification ParserSpec)
\* ========================================================================

\* C25: when parseProgram has returned, every range of pipelineRanges starts
\* at the keyword pipeline, every range of variableRanges starts at the type
\* of the variable, and the character before the end of a range is not
\* whitespace.
C25_RangesEndAtTheLastToken ==
  pc = "done"
    => /\ \A i \in 1..Len(parser.pipelineRanges) :
            LET r == parser.pipelineRanges[i].value
            IN /\ startsWith(parser.text, <<"p","i","p","e","l","i","n","e">>, r.start)
               /\ r.start < r.end
               /\ parser.text[r.end] \notin SpaceChars
       /\ \A i \in 1..Len(parser.variableRanges) :
            LET r == parser.variableRanges[i].value
                varType == splitKey(parser.variableRanges[i].key).varType
            IN /\ startsWith(parser.text, varType, r.start)
               /\ r.start < r.end
               /\ parser.text[r.end] \notin SpaceChars

\* ========================================================================
\* Further properties of the symbol requests
\* ========================================================================

\* the positions of a Map of references, each with its key
KeyedPositions(refs) ==
  UNION { {<<refs[i].key, refs[i].value[j]>> : j \in 1..Len(refs[i].value)} :
          i \in 1..Len(refs) }

\* C26: for every key, the positions that collectReferencePositions returns
\* in pipelineRefs and in variableRefs are in the order of the source, with
\* strictly ascending starts.
C26_ReferencesInSourceOrder ==
  answer.op = "collectReferencePositions"
    => \A refs \in {answer.refs.pipelineRefs, answer.refs.variableRefs} :
         \A i \in 1..Len(refs) :
           \A j \in 1..(Len(refs[i].value) - 1) :
             refs[i].value[j].start < refs[i].value[j + 1].start

\* the errors about an unknown pipeline and about an unknown variable among
\* the diagnostics, by index
UnknownPipelineErrors(diagnostics) ==
  {i \in 1..Len(diagnostics) :
     /\ diagnostics[i].severity = "Error"
     /\ Len(diagnostics[i].message) = 2
     /\ diagnostics[i].message[1] \in {"Unknown pipeline: ", "Unknown pipeline in mock: "}}

UnknownVariableErrors(diagnostics) ==
  {i \in 1..Len(diagnostics) :
     /\ diagnostics[i].severity = "Error"
     /\ Len(diagnostics[i].message) = 4
     /\ diagnostics[i].message[1] = "Unknown "
     /\ diagnostics[i].message[3] \in {" variable: ", " variable in mock: "}}

\* C28: the diagnostics that validateDocument publishes hold an error about an
\* unknown pipeline or an unknown variable exactly for the occurrences that
\* collectReferencePositions records under a key that is not declared, one
\* error for each occurrence, at the span recorded.
C28_UnknownReferencesAgreeWithScanner ==
  (answer.op = "validateDocument" /\ answer.fault = 0)
    => LET diagnostics == answer.published.diagnostics
           refs == collectReferencePositions(document)
           prog == parseProgramWithDiagnostics(document).program
           pipelineNames == declaredPipelines(<<>>, prog.pipelines)
           variablesByType == declaredVariables(<<>>, prog.variables)
           RangeOf(r) == Location(document, r.start, r.start + r.length).range
           Undeclared(key) ==
             undeclaredVariable(variablesByType, splitKey(key).varType, splitKey(key).varName)
       IN /\ \A e \in KeyedPositions(refs.pipelineRefs) :
               ~SetHas(pipelineNames, e[1])
                 => Cardinality({i \in UnknownPipelineErrors(diagnostics) :
                                   /\ diagnostics[i].message[2] = e[1]
                                   /\ diagnostics[i].range = RangeOf(e[2])}) = 1
          /\ \A i \in UnknownPipelineErrors(diagnostics) :
               \E e \in KeyedPositions(refs.pipelineRefs) :
                 /\ e[1] = diagnostics[i].message[2]
                 /\ RangeOf(e[2]) = diagnostics[i].range
                 /\ ~SetHas(pipelineNames, e[1])
          /\ \A e \in KeyedPositions(refs.variableRefs) :
               Undeclared(e[1])
                 => Cardinality({i \in UnknownVariableErrors(diagnostics) :
                                   /\ diagnostics[i].message[2] = splitKey(e[1]).varType
                                   /\ diagnostics[i].message[4] = splitKey(e[1]).varName
                                   /\ diagnostics[i].range = RangeOf(e[2])}) = 1
          /\ \A i \in UnknownVariableErrors(diagnostics) :
               \E e \in KeyedPositions(refs.variableRefs) :
                 /\ e[1] = diagnostics[i].message[2] \o <<":",":">> \o diagnostics[i].message[4]
                 /\ RangeOf(e[2]) = diagnostics[i].range
                 /\ Undeclared(e[1])

\* ========================================================================
\* Properties of the requests for references (specification ReferencesSpec)
\* ========================================================================

\* C27: for every reference that collectReferencePositions records under a
\* key, at every offset inside the span of the reference the word under the
\* cursor and the line classify as that key (isPipelineContext and the name
\* for a pipeline, getVariableKey for a variable), and onReferences returns
\* the reference.
C27_ResolverAgreesWithScanner ==
  answer.op = "onReferences"
    => LET refs == collectReferencePositions(document)
           wordInfo == getWordAt(document, answer.offset)
           lineText == lineTextAt(document, answer.offset)
           Inside(r) == r.start <= answer.offset /\ answer.offset < r.start + r.length
           Found(r) ==
             /\ ~answer.found.null
             /\ \E k \in 1..Len(answer.found.locations) :
                  answer.found.locations[k] = Location(document, r.start, r.start + r.length)
       IN /\ \A e \in KeyedPositions(refs.pipelineRefs) :
               Inside(e[2])
                 => /\ ~wordInfo.null
                    /\ isPipelineContext(lineText)
                    /\ wordInfo.word = e[1]
                    /\ Found(e[2])
          /\ \A e \in KeyedPositions(refs.variableRefs) :
               Inside(e[2])
                 => /\ ~wordInfo.null
                    /\ ~isPipelineContext(lineText)
                    /\ getVariableKey(lineText, wordInfo.word) = [null |-> FALSE, key |-> e[1]]
                    /\ Found(e[2])

\* C30: when the offset is in a usage of a partial whose content region
\* defines the partial inline, the locations that onReferences returns are
\* within that content region: no usage of another region, and not the global
\* declaration of the name.
C30_ReferencesStayInTheRegion ==
  (answer.op = "onReferences" /\ ~answer.found.null)
    => LET hb == collectHandlebarsSymbols(document)
           uses == usesInOrder(hb.usagesByName)
           wordInfo == getWordAt(document, answer.offset)
       IN \A i \in 1..Len(uses) :
            \A c \in 1..Len(hb.inlineDefsByContent) :
              (/\ Within(answer.offset, uses[i].use)
               /\ ~wordInfo.null
               /\ wordInfo.word = uses[i].name
               /\ Within(uses[i].use.start, hb.inlineDefsByContent[c].range)
               /\ hasInline(hb.inlineDefsByContent[c], uses[i].name))
                => \A k \in 1..Len(answer.found.locations) :
                     LET at == answer.found.locations[k].range
                     IN \E a, b \in 0..Len(document) :
                          /\ Within(a, hb.inlineDefsByContent[c].range)
                          /\ Within(b, hb.inlineDefsByContent[c].range)
                          /\ at = Location(document, a, b).range


====
